---- MODULE Spec2Model ----
(***************************************************************************)
(* Model of the MCP client core of mcp-sandbox:                            *)
(*   src/src/mcp_sandbox/client/session.py  (MCPSessionManager)            *)
(*   src/src/mcp_sandbox/client/app.py      (MCPClient)                    *)
(*   src/src/mcp_sandbox/client/metrics.py  (MetricsCollector)             *)
(* The session registry is a Python dict, modelled as the sequence of its  *)
(* items in insertion order.  Python strings are sequences of chunks, a    *)
(* chunk being one character where the characters matter (JSON texts).     *)
(***************************************************************************)
EXTENDS Integers, Sequences, FiniteSets, TLC

VARIABLES
    config_file,      \* the configuration source on disk
    server_configs,   \* MCPSessionManager.server_configs
    server_sessions,  \* MCPSessionManager.server_sessions (items in insertion order)
    channels,         \* every subprocess channel ever spawned, by handle
    now,              \* the clock read by time.time()
    pc,               \* position of the session manager: "idle" or the await point of initialize_servers
    idx,              \* initialize_servers: index of the descriptor of the current iteration
    stdio,            \* initialize_servers: handle of the channel spawned in the current iteration (0: none)
    launch_log,       \* initialize_servers: what the current/last run did, per iteration
    last_op,          \* the last completed operation: name, inputs, return value, escaped error
    conversation_history, \* MCPClient.conversation_history
    metrics,          \* MetricsCollector.metrics
    chat,             \* chat_with_claude: position and local variables of the call
    events            \* chat_with_claude: what the current/last call did, in order

session_vars == <<config_file, server_configs, server_sessions, channels, pc, idx,
                  stdio, launch_log, last_op>>

chat_vars == <<conversation_history, metrics, chat, events>>

vars == <<config_file, server_configs, server_sessions, channels, now, pc, idx,
          stdio, launch_log, last_op, conversation_history, metrics, chat, events>>

----------------------------------------------------------------------------
(* Bounds *)

MaxServers == 2     \* descriptors in a configuration source
MaxTime == 2        \* last clock value
MaxRetries == 3     \* largest max_retries passed to chat_with_claude
MaxMetrics == 3     \* metrics added to a collector on its own

\* Program constants
TimeoutBackoffBase == 2     \* app.py 111: asyncio.sleep(2**attempt)
RateLimitBackoffStep == 5   \* app.py 120: asyncio.sleep(5 * (attempt + 1))
DefaultMaxRetries == 3      \* app.py 81: max_retries: int = 3

----------------------------------------------------------------------------
(* Small helpers *)

SeqsUpTo(S, n) == UNION {[1..k -> S] : k \in 0..n}

RECURSIVE Flatten(_)
Flatten(ss) == IF ss = <<>> THEN <<>> ELSE Head(ss) \o Flatten(Tail(ss))

----------------------------------------------------------------------------
(* Data *)

Names == {"sqlite-database", "files"}

\* MCPServerConfig: the fields the session manager reads or writes
MCPServerConfig(n, e) == [name |-> n, enabled |-> e]

Descriptors == {MCPServerConfig(n, e) : n \in Names, e \in BOOLEAN}

\* the descriptor synthesized by _create_default_configuration
DefaultServers == <<MCPServerConfig("sqlite-database", TRUE)>>

\* a configuration source: absent, present and unparsable, or a document
ConfigSources ==
    {[kind |-> "absent", servers |-> <<>>], [kind |-> "malformed", servers |-> <<>>]}
    \cup {[kind |-> "doc", servers |-> s] : s \in SeqsUpTo(Descriptors, MaxServers)}

\* tools as the backends advertise them (mcp Tool objects)
Tool(n, d) == [name |-> n, description |-> d, inputSchema |-> "object"]
QueryA == Tool("query", "run sql")
QueryB == Tool("query", "search files")
ListT  == Tool("list", "list tables")

ToolLists == {<<>>, <<QueryA, ListT>>, <<ListT, QueryB>>}

ToolNames == {"query", "list", "nonexistent_tool"}

NoOp == [op |-> "none", raised |-> FALSE]

----------------------------------------------------------------------------
(* Python values: str, int, bool, list and dict, tagged by type.  A str is  *)
(* its sequence of chunks, an int its digits, a dict the function from its  *)
(* keys (chunk sequences) to its values.                                   *)

PyStr(s)  == [t |-> "str", v |-> s]
PyNum(ds) == [t |-> "int", v |-> ds]
PyBool(b) == [t |-> "bool", v |-> b]
PyList(l) == [t |-> "list", v |-> l]
PyDict(f) == [t |-> "dict", v |-> f]
PyNone == [t |-> "none", v |-> <<>>]

DictPut(f, k, x) == [key \in DOMAIN f \cup {k} |-> IF key = k THEN x ELSE f[key]]

----------------------------------------------------------------------------
(* json.loads on texts over the characters { } [ ] : , " the digits, space  *)
(* and newline, the words true, false and null, and chunks of other        *)
(* characters inside strings: objects, arrays, strings without escapes,    *)
(* unsigned integers and the three literals.                               *)

Digits == {"0", "1", "2", "3", "4", "5", "6", "7", "8", "9"}
Whitespace == {" ", "\n"}
Quote == "\""

ParseFail == [ok |-> FALSE, val |-> PyStr(<<>>), next |-> 0]
ParseOk(x, n) == [ok |-> TRUE, val |-> x, next |-> n]

RECURSIVE SkipWs(_, _)
SkipWs(s, i) == IF i <= Len(s) /\ s[i] \in Whitespace THEN SkipWs(s, i + 1) ELSE i

\* position of the closing quote of the string whose body starts at i, 0 if none
RECURSIVE ScanString(_, _)
ScanString(s, i) ==
    IF i > Len(s) THEN 0 ELSE IF s[i] = Quote THEN i ELSE ScanString(s, i + 1)

\* first position from i on that holds no digit
RECURSIVE ScanDigits(_, _)
ScanDigits(s, i) == IF i <= Len(s) /\ s[i] \in Digits THEN ScanDigits(s, i + 1) ELSE i

RECURSIVE ParseValue(_, _)
RECURSIVE ParseElements(_, _, _)
RECURSIVE ParseMembers(_, _, _)

\* the value that starts at position i (white space already skipped)
ParseValue(s, i) ==
    IF i > Len(s) THEN ParseFail
    ELSE IF s[i] = Quote THEN
        LET j == ScanString(s, i + 1)
        IN  IF j = 0 THEN ParseFail ELSE ParseOk(PyStr(SubSeq(s, i + 1, j - 1)), j + 1)
    ELSE IF s[i] \in Digits THEN
        LET j == ScanDigits(s, i)
        IN  IF s[i] = "0" /\ j > i + 1 THEN ParseFail
            ELSE ParseOk(PyNum(SubSeq(s, i, j - 1)), j)
    ELSE IF s[i] \in {"true", "false"} THEN ParseOk(PyBool(s[i] = "true"), i + 1)
    ELSE IF s[i] = "null" THEN ParseOk(PyNone, i + 1)
    ELSE IF s[i] = "[" THEN
        LET j == SkipWs(s, i + 1)
        IN  IF j <= Len(s) /\ s[j] = "]" THEN ParseOk(PyList(<<>>), j + 1)
            ELSE ParseElements(s, j, <<>>)
    ELSE IF s[i] = "{" THEN
        LET j == SkipWs(s, i + 1)
        IN  IF j <= Len(s) /\ s[j] = "}" THEN ParseOk(PyDict(<<>>), j + 1)
            ELSE ParseMembers(s, j, <<>>)
    ELSE ParseFail

\* the rest of an array: value ("," value)* "]"
ParseElements(s, i, acc) ==
    LET r == ParseValue(s, i)
        k == SkipWs(s, r.next)
    IN  IF ~r.ok \/ k > Len(s) THEN ParseFail
        ELSE IF s[k] = "]" THEN ParseOk(PyList(Append(acc, r.val)), k + 1)
        ELSE IF s[k] = "," THEN ParseElements(s, SkipWs(s, k + 1), Append(acc, r.val))
        ELSE ParseFail

\* the rest of an object: string ":" value ("," string ":" value)* "}"
ParseMembers(s, i, acc) ==
    LET key == ParseValue(s, i)
        c == SkipWs(s, key.next)
    IN  IF ~key.ok \/ key.val.t # "str" \/ c > Len(s) \/ s[c] # ":" THEN ParseFail
        ELSE LET r == ParseValue(s, SkipWs(s, c + 1))
                 k == SkipWs(s, r.next)
                 acc2 == DictPut(acc, key.val.v, r.val)
             IN  IF ~r.ok \/ k > Len(s) THEN ParseFail
                 ELSE IF s[k] = "}" THEN ParseOk(PyDict(acc2), k + 1)
                 ELSE IF s[k] = "," THEN ParseMembers(s, SkipWs(s, k + 1), acc2)
                 ELSE ParseFail

\* json.loads: one value, white space around it, nothing else
json_loads(s) ==
    LET r == ParseValue(s, SkipWs(s, 1))
    IN  IF r.ok /\ SkipWs(s, r.next) > Len(s) THEN r ELSE ParseFail

----------------------------------------------------------------------------
(* The clock: every time.time() reads a later value than the one before,    *)
(* up to the last value the model counts.                                  *)

Tick(t) == IF t < MaxTime THEN t + 1 ELSE t

\* the values of n successive reads after the clock showed t
RECURSIVE TimeReads(_, _)
TimeReads(t, n) == IF n = 0 THEN <<>> ELSE <<Tick(t)>> \o TimeReads(Tick(t), n - 1)

----------------------------------------------------------------------------
(* Python dict item assignment d[k] = v on the item sequence: an existing   *)
(* key keeps its position, a new key goes last.                            *)

HasKey(d, k) == \E i \in DOMAIN d : d[i].name = k

DictSet(d, k, v) ==
    IF HasKey(d, k)
    THEN [i \in DOMAIN d |-> IF d[i].name = k THEN v ELSE d[i]]
    ELSE Append(d, v)

----------------------------------------------------------------------------
(* load_configuration / _create_default_configuration *)

\* variant: an unparsable source is read as a document without servers
load_configuration_EmptyOnMalformed ==
    /\ pc = "new"
    /\ \/ /\ config_file.kind = "doc"
          /\ server_configs' = config_file.servers
          /\ config_file' = config_file
       \/ /\ config_file.kind = "malformed"
          /\ server_configs' = <<>>
          /\ config_file' = config_file
       \/ /\ config_file.kind = "absent"
          /\ config_file' = [kind |-> "doc", servers |-> DefaultServers]
          /\ server_configs' = DefaultServers
    /\ pc' = "loaded"
    /\ last_op' = [op |-> "load_configuration", raised |-> FALSE]
    /\ UNCHANGED <<server_sessions, channels, now, idx, stdio, launch_log>>
    /\ UNCHANGED chat_vars

load_configuration ==
    /\ pc = "new"
    /\ \/ /\ config_file.kind = "doc"
          /\ server_configs' = config_file.servers
          /\ config_file' = config_file
          /\ pc' = "loaded"
          /\ last_op' = [op |-> "load_configuration", raised |-> FALSE]
       \/ /\ config_file.kind = "malformed"
          /\ UNCHANGED <<server_configs, config_file>>
          /\ pc' = "failed"
          /\ last_op' = [op |-> "load_configuration", raised |-> TRUE]
       \/ /\ config_file.kind = "absent"
          /\ config_file' = [kind |-> "doc", servers |-> DefaultServers]
          /\ server_configs' = DefaultServers
          /\ pc' = "loaded"
          /\ last_op' = [op |-> "load_configuration", raised |-> FALSE]
    /\ UNCHANGED <<server_sessions, channels, now, idx, stdio, launch_log>>
    /\ UNCHANGED chat_vars

----------------------------------------------------------------------------
(* initialize_servers: one action per await point of the loop body          *)

LogEntry(i, outcome) == [index |-> i, outcome |-> outcome]

\* entry of initialize_servers (line 81)
initialize_servers_begin ==
    /\ pc = "loaded"
    /\ pc' = "next"
    /\ idx' = 1
    /\ stdio' = 0
    /\ launch_log' = <<>>
    /\ last_op' = [op |-> "initialize_servers", done |-> FALSE, raised |-> FALSE]
    /\ UNCHANGED <<config_file, server_configs, server_sessions, channels, now>>
    /\ UNCHANGED chat_vars

\* variant: the failure leaves initialize_servers instead of being caught
LaunchFailed_Propagates ==
    /\ server_configs' = [server_configs EXCEPT ![idx].enabled = FALSE]
    /\ launch_log' = Append(launch_log, LogEntry(idx, "failed"))
    /\ idx' = idx
    /\ pc' = "idle"
    /\ stdio' = 0
    /\ last_op' = [op |-> "initialize_servers", done |-> TRUE, raised |-> TRUE]
    /\ UNCHANGED <<server_sessions, now>>

\* the except clause (lines 129-131): the descriptor is disabled, the loop goes on
LaunchFailed ==
    /\ server_configs' = [server_configs EXCEPT ![idx].enabled = FALSE]
    /\ launch_log' = Append(launch_log, LogEntry(idx, "failed"))
    /\ idx' = idx + 1
    /\ pc' = "next"
    /\ stdio' = 0
    /\ UNCHANGED <<server_sessions, now, last_op>>

\* lines 83-84: a disabled descriptor is passed over
LaunchSkip ==
    /\ pc = "next"
    /\ idx <= Len(server_configs)
    /\ ~server_configs[idx].enabled
    /\ launch_log' = Append(launch_log, LogEntry(idx, "skipped"))
    /\ idx' = idx + 1
    /\ UNCHANGED <<config_file, server_configs, server_sessions, channels, now, pc,
                   stdio, last_op>>
    /\ UNCHANGED chat_vars

\* variant: the enabled flag is not looked at before the spawn
LaunchSpawn_IgnoresEnabled ==
    /\ pc = "next"
    /\ idx <= Len(server_configs)
    /\ \/ /\ channels' = Append(channels, [name |-> server_configs[idx].name,
                                          stdio |-> "open", session |-> "none"])
          /\ stdio' = Len(channels) + 1
          /\ pc' = "enter"
          /\ UNCHANGED <<server_configs, server_sessions, now, idx, launch_log, last_op>>
       \/ /\ LaunchFailed
          /\ UNCHANGED channels
    /\ UNCHANGED <<config_file>>
    /\ UNCHANGED chat_vars

\* lines 106-107: stdio_client(...).__aenter__() spawns the subprocess
LaunchSpawn ==
    /\ pc = "next"
    /\ idx <= Len(server_configs)
    /\ server_configs[idx].enabled
    /\ \/ /\ channels' = Append(channels, [name |-> server_configs[idx].name,
                                          stdio |-> "open", session |-> "none"])
          /\ stdio' = Len(channels) + 1
          /\ pc' = "enter"
          /\ UNCHANGED <<server_configs, server_sessions, now, idx, launch_log, last_op>>
       \/ /\ LaunchFailed
          /\ UNCHANGED channels
    /\ UNCHANGED <<config_file>>
    /\ UNCHANGED chat_vars

\* variant: the session is put in the registry as soon as it is entered
LaunchEnter_RegistersEarly ==
    /\ pc = "enter"
    /\ \/ /\ channels' = [channels EXCEPT ![stdio].session = "open"]
          /\ pc' = "initialize"
          /\ server_sessions' = DictSet(server_sessions, server_configs[idx].name,
                                   [name |-> server_configs[idx].name, session |-> stdio,
                                    stdio |-> stdio, tools |-> <<>>, healthy |-> TRUE,
                                    last_check |-> now])
          /\ UNCHANGED <<server_configs, now, idx, stdio, launch_log, last_op>>
       \/ /\ LaunchFailed
          /\ UNCHANGED channels
    /\ UNCHANGED <<config_file>>
    /\ UNCHANGED chat_vars

\* lines 109-110: ClientSession(read, write).__aenter__()
LaunchEnter ==
    /\ pc = "enter"
    /\ \/ /\ channels' = [channels EXCEPT ![stdio].session = "open"]
          /\ pc' = "initialize"
          /\ UNCHANGED <<server_configs, server_sessions, now, idx, stdio, launch_log, last_op>>
       \/ /\ LaunchFailed
          /\ UNCHANGED channels
    /\ UNCHANGED <<config_file>>
    /\ UNCHANGED chat_vars

\* line 111: session.initialize(), the protocol handshake
LaunchInitialize ==
    /\ pc = "initialize"
    /\ \/ /\ pc' = "list_tools"
          /\ UNCHANGED <<server_configs, server_sessions, now, idx, stdio, launch_log, last_op>>
       \/ LaunchFailed
    /\ UNCHANGED <<config_file, channels>>
    /\ UNCHANGED chat_vars

\* the session record of lines 116-122
SessionInfo(name, handle, tools, t) ==
    [name |-> name, session |-> handle, stdio |-> handle, tools |-> tools,
     healthy |-> TRUE, last_check |-> t]

\* lines 114-122: session.list_tools(), then the registration
LaunchListTools ==
    /\ pc = "list_tools"
    /\ \/ \E tools \in ToolLists :
            /\ server_sessions' = DictSet(server_sessions, server_configs[idx].name,
                                     SessionInfo(server_configs[idx].name, stdio, tools, Tick(now)))
            /\ now' = Tick(now)
            /\ launch_log' = Append(launch_log, LogEntry(idx, "ready"))
            /\ idx' = idx + 1
            /\ pc' = "next"
            /\ stdio' = 0
            /\ UNCHANGED <<server_configs, last_op>>
       \/ LaunchFailed
    /\ UNCHANGED <<config_file, channels>>
    /\ UNCHANGED chat_vars

\* the loop is exhausted: initialize_servers returns
LaunchReturn ==
    /\ pc = "next"
    /\ idx > Len(server_configs)
    /\ pc' = "idle"
    /\ last_op' = [op |-> "initialize_servers", done |-> TRUE, raised |-> FALSE]
    /\ UNCHANGED <<config_file, server_configs, server_sessions, channels, now, idx,
                   stdio, launch_log>>
    /\ UNCHANGED chat_vars

----------------------------------------------------------------------------
(* health_check_all (lines 133-141): no await, one step.  Every iteration   *)
(* reads the clock; the reads never decrease.                              *)

\* responsive[i]: whether the backend of the i-th session would answer a
\* liveness probe during this call; at is the clock before the call
health_check_all ==
    /\ pc = "idle"
    /\ LET ts == TimeReads(now, Len(server_sessions))
       IN  /\ server_sessions' = [i \in DOMAIN server_sessions |->
                                    [server_sessions[i] EXCEPT !.healthy = TRUE,
                                                               !.last_check = ts[i]]]
           /\ now' = IF ts = <<>> THEN now ELSE ts[Len(ts)]
    /\ \E responsive \in [DOMAIN server_sessions -> BOOLEAN] :
          last_op' = [op |-> "health_check_all", responsive |-> responsive, at |-> now,
                      raised |-> FALSE]
    /\ UNCHANGED <<config_file, server_configs, channels, pc, idx, stdio, launch_log>>
    /\ UNCHANGED chat_vars

----------------------------------------------------------------------------
(* get_all_tools (lines 143-154) *)

\* lines 148-152: the model-facing schema of one tool
tool_def(tool) ==
    [name |-> tool.name, description |-> tool.description, input_schema |-> tool.inputSchema]

\* the inner loop over one session's tools
RECURSIVE tool_defs(_)
tool_defs(tools) ==
    IF tools = <<>> THEN <<>> ELSE <<tool_def(Head(tools))>> \o tool_defs(Tail(tools))

\* variant: the healthy flag is not looked at
RECURSIVE get_all_tools_IgnoresHealth(_)
get_all_tools_IgnoresHealth(sessions) ==
    IF sessions = <<>> THEN <<>>
    ELSE tool_defs(Head(sessions).tools) \o get_all_tools_IgnoresHealth(Tail(sessions))

\* the outer loop over the registry's items
RECURSIVE get_all_tools(_)
get_all_tools(sessions) ==
    IF sessions = <<>> THEN <<>>
    ELSE (IF Head(sessions).healthy THEN tool_defs(Head(sessions).tools) ELSE <<>>)
         \o get_all_tools(Tail(sessions))

----------------------------------------------------------------------------
(* execute_tool (lines 156-192) *)

\* what a backend's call_tool can do: raise, or return a content list.  A
\* content item either has a text attribute or is rendered by str().
TextContent(chars) == [has_text |-> TRUE, text |-> chars]
OtherContent(repr) == [has_text |-> FALSE, text |-> <<repr>>]

\* {"a": 1} in two text items, [12,"b"], the unfinished {"a":1, an empty
\* text, and an item without text between [ and ]
SplitObject == <<TextContent(<<"{", Quote, "a", Quote, ":">>), TextContent(<<" ", "1", "}">>)>>
ArrayText == <<TextContent(<<"[", "1", "2", ",", Quote, "b", Quote, "]">>)>>
Unfinished == <<TextContent(<<"{", Quote, "a", Quote, ":", "1">>)>>
EmptyText == <<TextContent(<<>>)>>
WithImage == <<TextContent(<<"[">>), OtherContent("ImageContent()"), TextContent(<<"]">>)>>

Contents == {<<>>, SplitObject, ArrayText, Unfinished, EmptyText, WithImage}

BackendErrors == {<<"boom">>, <<"connection closed">>}

CallOutcomes ==
    {[kind |-> "raise", error |-> e, content |-> <<>>] : e \in BackendErrors}
    \cup {[kind |-> "result", error |-> <<>>, content |-> c] : c \in Contents}

\* the outcome drawn when no backend is called
NoCall == [kind |-> "result", error |-> <<>>, content |-> <<>>]

\* lines 172-177: the concatenation of the content items' texts
RECURSIVE content_text(_)
content_text(content) ==
    IF content = <<>> THEN <<>> ELSE Head(content).text \o content_text(Tail(content))

\* line 192
ToolNotFound(tool_name) ==
    PyDict(<<"error">> :> PyStr(<<"Tool ", tool_name, " not found on any healthy server">>))

\* line 190
ToolExecutionError(e) ==
    PyDict(<<"error">> :> PyStr(<<"Tool execution failed: ">> \o e))

\* lines 182 and 184
Wrapped(text) ==
    PyDict((<<"success">> :> PyBool(TRUE)) @@ (<<"result">> :> PyStr(text)))

\* variant: only the first content item's text is decoded
ParseResult_FirstItemOnly(content) ==
    IF content # <<>>
    THEN LET text == Head(content).text
             decoded == json_loads(text)
         IN  IF decoded.ok THEN decoded.val ELSE Wrapped(text)
    ELSE Wrapped(<<"No content">>)

\* lines 171-184: the return value for a call that came back
ParseResult(content) ==
    IF content # <<>>
    THEN LET text == content_text(content)
             decoded == json_loads(text)
         IN  IF decoded.ok THEN decoded.val ELSE Wrapped(text)
    ELSE Wrapped(<<"No content">>)

\* variant: the backend's exception is not caught
CallSession_Propagates(i, out) ==
    IF out.kind = "raise"
    THEN [called |-> <<i>>, result |-> ToolExecutionError(out.error), raised |-> TRUE]
    ELSE [called |-> <<i>>, result |-> ParseResult(out.content), raised |-> FALSE]

\* lines 165-190: the call to one session, inside the try
CallSession(i, out) ==
    IF out.kind = "raise"
    THEN [called |-> <<i>>, result |-> ToolExecutionError(out.error), raised |-> FALSE]
    ELSE [called |-> <<i>>, result |-> ParseResult(out.content), raised |-> FALSE]

Advertises(session_info, tool_name) ==
    tool_name \in {session_info.tools[k].name : k \in DOMAIN session_info.tools}

\* variant: after a failed call the loop goes on to the next session
RECURSIVE execute_tool_from_TriesNext(_, _, _)
execute_tool_from_TriesNext(i, tool_name, out) ==
    IF i > Len(server_sessions)
    THEN [called |-> <<>>, result |-> ToolNotFound(tool_name), raised |-> FALSE]
    ELSE IF ~server_sessions[i].healthy THEN execute_tool_from_TriesNext(i + 1, tool_name, out)
    ELSE IF Advertises(server_sessions[i], tool_name)
         THEN IF out.kind = "raise"
              THEN LET r == execute_tool_from_TriesNext(i + 1, tool_name, out)
                   IN  [r EXCEPT !.called = <<i>> \o r.called]
              ELSE CallSession(i, out)
         ELSE execute_tool_from_TriesNext(i + 1, tool_name, out)

\* variant: the first healthy session is called whatever it advertises
RECURSIVE execute_tool_from_AnyTool(_, _, _)
execute_tool_from_AnyTool(i, tool_name, out) ==
    IF i > Len(server_sessions)
    THEN [called |-> <<>>, result |-> ToolNotFound(tool_name), raised |-> FALSE]
    ELSE IF ~server_sessions[i].healthy THEN execute_tool_from_AnyTool(i + 1, tool_name, out)
    ELSE CallSession(i, out)

\* variant: the healthy flag is not looked at
RECURSIVE execute_tool_from_IgnoresHealth(_, _, _)
execute_tool_from_IgnoresHealth(i, tool_name, out) ==
    IF i > Len(server_sessions)
    THEN [called |-> <<>>, result |-> ToolNotFound(tool_name), raised |-> FALSE]
    ELSE IF Advertises(server_sessions[i], tool_name)
         THEN CallSession(i, out)
         ELSE execute_tool_from_IgnoresHealth(i + 1, tool_name, out)

\* lines 159-192: the loop over the registry from item i on; out is what the
\* backend does with a call it receives
RECURSIVE execute_tool_from(_, _, _)
execute_tool_from(i, tool_name, out) ==
    IF i > Len(server_sessions)
    THEN [called |-> <<>>, result |-> ToolNotFound(tool_name), raised |-> FALSE]
    ELSE IF ~server_sessions[i].healthy THEN execute_tool_from(i + 1, tool_name, out)
    ELSE IF Advertises(server_sessions[i], tool_name)
         THEN CallSession(i, out)
         ELSE execute_tool_from(i + 1, tool_name, out)

execute_tool ==
    /\ pc = "idle"
    /\ \E tool_name \in ToolNames, out \in CallOutcomes :
          LET r == execute_tool_from(1, tool_name, out)
          IN  /\ r.called = <<>> => out = NoCall
              /\ last_op' = [op |-> "execute_tool", tool_name |-> tool_name,
                             out |-> IF r.called = <<>> THEN <<>> ELSE <<out>>,
                             called |-> r.called, result |-> r.result,
                             raised |-> r.raised]
    /\ UNCHANGED <<config_file, server_configs, server_sessions, channels, now, pc, idx,
                   stdio, launch_log>>
    /\ UNCHANGED chat_vars

----------------------------------------------------------------------------
(* The environment *)

\* a holder of the registry clears one session's healthy flag
\* (session_info["healthy"] = False)
MarkUnhealthy ==
    /\ pc = "idle"
    /\ \E i \in DOMAIN server_sessions :
          /\ server_sessions[i].healthy
          /\ server_sessions' = [server_sessions EXCEPT ![i].healthy = FALSE]
          /\ last_op' = [op |-> "mark_unhealthy", name |-> server_sessions[i].name,
                         raised |-> FALSE]
    /\ UNCHANGED <<config_file, server_configs, channels, now, pc, idx, stdio,
                   launch_log>>
    /\ UNCHANGED chat_vars

(***************************************************************************)
(* MCPClient (app.py) and MetricsCollector (metrics.py).                   *)
(*                                                                         *)
(* chat_with_claude is split at its suspension points and at its calls of  *)
(* the model: chat.pc is the position of the one call in flight.           *)
(*   "idle"     not called yet                                             *)
(*   "attempt"  at the head of the retry loop body, about to call          *)
(*              _execute_chat                                              *)
(*   "model1"   in _execute_chat, about to make the first model call       *)
(*   "tools"    in the tool loop, about to await execute_tool for block k  *)
(*   "model2"   about to append the two turns and make the second call     *)
(*   "sleep"    awaiting asyncio.sleep after a retryable failure           *)
(*   "returned" the call has returned chat.ret                             *)
(* events lists, in order, what the call did: the attempts it started, the *)
(* model calls it made (with the catalog they carried), the execute_tool   *)
(* calls and the sleeps.                                                   *)
(***************************************************************************)

\* The marker that starts every diagnostic text of app.py (U+274C there).
ErrorMarker == "(x)"

\* app.py 136: the text returned when the catalog is empty.
NoToolsText_Unmarked ==
    <<" No MCP tools currently available.", " Please check server status.">>

NoToolsText ==
    <<ErrorMarker, " No MCP tools currently available.", " Please check server status.">>

\* metrics.py: the RequestMetrics dataclass; None and the empty list are <<>>.
RequestMetrics(request_id, start_time) ==
    [request_id |-> request_id, start_time |-> start_time, end_time |-> <<>>,
     success |-> FALSE, error_type |-> <<>>, tools_called |-> <<>>,
     token_usage |-> <<>>]

\* MetricsCollector.add_metric
add_metric_Prepends(log, metric) == <<metric>> \o log

add_metric(log, metric) == Append(log, metric)

\* Content blocks of a model response.
TextBlock(text) == [type |-> "text", text |-> text, name |-> "", id |-> ""]

ToolUseBlock(id, name) == [type |-> "tool_use", text |-> <<>>, name |-> name, id |-> id]

Message(stop_reason, content) == [stop_reason |-> stop_reason, content |-> content]

PlainAnswer == Message("end_turn", <<TextBlock(<<"hello">>)>>)

TwoToolUses ==
    Message("tool_use", <<TextBlock(<<"checking">>), ToolUseBlock("toolu_1", "query"),
                          ToolUseBlock("toolu_2", "list")>>)

UnknownToolUse == Message("tool_use", <<ToolUseBlock("toolu_3", "nonexistent_tool")>>)

FinalAnswer == Message("end_turn", <<TextBlock(<<"done">>)>>)

\* The exceptions the model client raises: the two the retry loop names and
\* one it does not (APIConnectionError is the base class of APITimeoutError).
APITimeoutError == [name |-> "APITimeoutError", msg |-> "Request timed out."]

RateLimitError == [name |-> "RateLimitError", msg |-> "rate limited"]

APIConnectionError == [name |-> "APIConnectionError", msg |-> "Connection error."]

ModelErrors == {APITimeoutError, RateLimitError, APIConnectionError}

Responded(m) == [kind |-> "response", message |-> m, error |-> <<>>]

Raised(e) == [kind |-> "raise", message |-> <<>>, error |-> <<e>>]

\* What messages.create(..., tools=all_tools) can do.
FirstCallOutcomes ==
    {Responded(m) : m \in {PlainAnswer, TwoToolUses, UnknownToolUse}}
    \cup {Raised(e) : e \in ModelErrors}

\* What messages.create(...) without a catalog can do.
SecondCallOutcomes == {Responded(FinalAnswer)} \cup {Raised(e) : e \in ModelErrors}

\* What a backend does with a call made during a chat.
ChatCallOutcomes ==
    {[kind |-> "raise", error |-> <<"boom">>, content |-> <<>>],
     [kind |-> "result", error |-> <<>>, content |-> ArrayText]}

UserMessages == {<<"hi">>}

\* json.dumps(tool_result, indent=2, default=str): the text is kept as the
\* value it serialises; two texts are equal exactly when the values are.
json_dumps(value) == [dumps |-> value]

Turn(role, content) == [role |-> role, content |-> content]

ToolResultBlock_Unkeyed(tool_id, tool_result) ==
    [type |-> "tool_result", tool_use_id |-> "",
     content |-> <<[type |-> "text", text |-> json_dumps(tool_result)]>>]

ToolResultBlock(tool_id, tool_result) ==
    [type |-> "tool_result", tool_use_id |-> tool_id,
     content |-> <<[type |-> "text", text |-> json_dumps(tool_result)]>>]

\* Events of a chat_with_claude call.
\* The call started with a history of that many turns and that many metrics.
CallEvent(turns, recorded) == [ev |-> "call", turns |-> turns, recorded |-> recorded]

\* turns is the length of the history when the attempt started.
AttemptEvent(n, turns) == [ev |-> "attempt", attempt |-> n, turns |-> turns]

\* tools is <<catalog>> when the call carried one, <<>> when it carried none;
\* out is what the model did with the call.
ModelEvent(n, tools, out) == [ev |-> "model", attempt |-> n, tools |-> tools, out |-> out]

ToolEvent(n, id, name) == [ev |-> "tool", attempt |-> n, id |-> id, name |-> name]

SleepEvent(n, error, delay) == [ev |-> "sleep", attempt |-> n, error |-> error,
                                delay |-> delay]

ChatIdle ==
    [pc |-> "idle", user_message |-> <<>>, max_retries |-> 0, attempt |-> 0,
     request |-> <<>>, response |-> <<>>, k |-> 0, outstanding |-> <<>>,
     tool_results |-> <<>>, ret |-> <<>>]

\* The index of the first tool_use block of content at or after k, 0 if none.
NextToolUse(content, k) ==
    LET later == {i \in k..Len(content) : content[i].type = "tool_use"}
    IN  IF later = {} THEN 0 ELSE CHOOSE i \in later : \A j \in later : i <= j

\* app.py 87: for attempt in range(max_retries), the one loop that every
\* kind of failure goes through
InRange_Inclusive(attempt, max_retries) == attempt <= max_retries

InRange(attempt, max_retries) == attempt < max_retries

\* app.py 81-87: the request metric is created and the loop is entered; with
\* an empty range the body never runs and the function falls off its end.
chat_with_claude(user_message, max_retries) ==
    /\ pc = "idle"
    /\ chat.pc = "idle"
    /\ LET ts == TimeReads(now, 2)
           request == RequestMetrics(ts[1], ts[2])
       IN  /\ now' = ts[2]
           /\ chat' = [chat EXCEPT !.user_message = user_message,
                                   !.max_retries = max_retries,
                                   !.attempt = 0,
                                   !.request = <<request>>,
                                   !.pc = IF InRange(0, max_retries) THEN "attempt"
                                          ELSE "returned",
                                   !.ret = IF InRange(0, max_retries) THEN <<>>
                                           ELSE <<PyNone>>]
    /\ events' = <<CallEvent(Len(conversation_history), Len(metrics))>>
    /\ last_op' = [op |-> "chat_with_claude", raised |-> FALSE]
    /\ UNCHANGED <<conversation_history, metrics>>
    /\ UNCHANGED <<config_file, server_configs, server_sessions, channels, pc, idx,
                   stdio, launch_log>>

\* A caller that chooses max_retries.
chat_with_claude_begin ==
    \E user_message \in UserMessages, max_retries \in 0..MaxRetries :
        chat_with_claude(user_message, max_retries)

\* chat.py 48, main.py 30: the callers of the repository leave max_retries at
\* its default.
chat_with_claude_default ==
    \E user_message \in UserMessages : chat_with_claude(user_message, DefaultMaxRetries)

\* app.py 89-100: _execute_chat returned text; evs is what the call did so far.
ReturnResponse(evs, text) ==
    /\ now' = Tick(now)
    /\ metrics' = add_metric(metrics, [chat.request[1] EXCEPT !.end_time = <<Tick(now)>>,
                                                              !.success = TRUE])
    /\ chat' = [chat EXCEPT !.pc = "returned", !.ret = <<PyStr(text)>>]
    /\ events' = evs

\* app.py 106-110, 115-119, 124-127: the metric is recorded with the error
\* kind and the diagnostic text is returned.
ReturnError(evs, error_type, text) ==
    /\ now' = Tick(now)
    /\ metrics' = add_metric(metrics, [chat.request[1] EXCEPT !.end_time = <<Tick(now)>>,
                                                              !.error_type = <<error_type>>])
    /\ chat' = [chat EXCEPT !.pc = "returned", !.ret = <<PyStr(text)>>]
    /\ events' = evs

\* app.py 111, 120: await asyncio.sleep(delay)
Backoff(evs, error, delay) ==
    /\ events' = Append(evs, SleepEvent(chat.attempt + 1, error, delay))
    /\ chat' = [chat EXCEPT !.pc = "sleep"]
    /\ UNCHANGED <<now, metrics>>

\* app.py 106, 115: if attempt == max_retries - 1
LastAttempt_OffByOne(attempt, max_retries) == attempt = max_retries

LastAttempt(attempt, max_retries) == attempt = max_retries - 1

\* app.py 111: 2**attempt
TimeoutDelay_Linear(attempt) == TimeoutBackoffBase * attempt

TimeoutDelay(attempt) == TimeoutBackoffBase ^ attempt

\* app.py 120: 5 * (attempt + 1)
RateLimitDelay_Flat(attempt) == RateLimitBackoffStep

RateLimitDelay(attempt) == RateLimitBackoffStep * (attempt + 1)

\* app.py 102-127: the except clauses of the retry loop, for the exception e
\* that escaped _execute_chat.
HandleError_RetriesAll(evs, e) ==
    IF LastAttempt(chat.attempt, chat.max_retries)
    THEN ReturnError(evs, e.name, <<ErrorMarker, " Error: ", e.msg>>)
    ELSE Backoff(evs, e.name, TimeoutDelay(chat.attempt))

HandleError(evs, e) ==
    IF e.name = "APITimeoutError"
    THEN IF LastAttempt(chat.attempt, chat.max_retries)
         THEN ReturnError(evs, "timeout", <<ErrorMarker, " Request timed out after ",
                                            ToString(chat.max_retries), " attempts">>)
         ELSE Backoff(evs, "timeout", TimeoutDelay(chat.attempt))
    ELSE IF e.name = "RateLimitError"
    THEN IF LastAttempt(chat.attempt, chat.max_retries)
         THEN ReturnError(evs, "rate_limit",
                          <<ErrorMarker, " Rate limit exceeded. Please try again later.">>)
         ELSE Backoff(evs, "rate_limit", RateLimitDelay(chat.attempt))
    ELSE ReturnError(evs, e.name, <<ErrorMarker, " Error: ", e.msg>>)

\* app.py 134: if not all_tools
NoToolsAvailable_Never(all_tools) == FALSE

NoToolsAvailable(all_tools) == all_tools = <<>>

\* app.py 130-136: the user turn is appended and the catalog is built; an
\* empty catalog returns the diagnostic text to the loop's success path.
execute_chat_enter ==
    /\ chat.pc = "attempt"
    /\ conversation_history' = Append(conversation_history,
                                      Turn("user", PyStr(chat.user_message)))
    /\ LET evs == Append(events, AttemptEvent(chat.attempt + 1, Len(conversation_history)))
       IN  IF NoToolsAvailable(get_all_tools(server_sessions))
           THEN ReturnResponse(evs, NoToolsText)
           ELSE /\ chat' = [chat EXCEPT !.pc = "model1"]
                /\ events' = evs
                /\ UNCHANGED <<now, metrics>>
    /\ UNCHANGED session_vars

\* app.py 188-190, 200-202, 206-208: the assistant turn holds the response's
\* content blocks.
AppendAssistant_Dropped(history, content) == history

AppendAssistant(history, content) == Append(history, Turn("assistant", PyList(content)))

\* app.py 149-162 and 205-209: the first model call, made with the catalog.
\* A plain response is appended and its first block's text returned; a
\* tool_use response starts the tool loop; an exception goes to the retry loop.
first_model_call ==
    /\ chat.pc = "model1"
    /\ \E out \in FirstCallOutcomes :
          LET evs == Append(events, ModelEvent(chat.attempt + 1,
                                               <<get_all_tools(server_sessions)>>, out))
              m == out.message
          IN  IF out.kind = "raise"
              THEN /\ HandleError(evs, out.error[1])
                   /\ UNCHANGED conversation_history
              ELSE IF m.stop_reason = "tool_use"
              THEN /\ chat' = [chat EXCEPT !.response = m.content,
                                           !.tool_results = <<>>,
                                           !.k = NextToolUse(m.content, 1),
                                           !.pc = IF NextToolUse(m.content, 1) = 0
                                                  THEN "model2" ELSE "tools"]
                   /\ events' = evs
                   /\ UNCHANGED <<conversation_history, now, metrics>>
              ELSE /\ conversation_history' =
                          AppendAssistant(conversation_history, m.content)
                   /\ ReturnResponse(evs, m.content[1].text)
    /\ UNCHANGED session_vars

\* app.py 172-174, session.py 172-174: both awaits suspend the loop until the
\* call has returned or failed, so the loop goes on to the next tool_use block
\* only when no call is outstanding.
Awaited_NotAwaited(outstanding) == TRUE

Awaited(outstanding) == outstanding = <<>>

\* app.py 161-186: the loop over the content blocks has no break and does not
\* look at tool_result, so it goes on whatever execute_tool returned.
LoopContinues_StopsOnError(tool_result) ==
    ~(tool_result.t = "dict" /\ <<"error">> \in DOMAIN tool_result.v)

LoopContinues(tool_result) == TRUE

\* app.py 161-174, session.py 159-174: the tool loop reaches the tool_use
\* block at k and calls execute_tool.  When a healthy session advertises the
\* tool, call_tool is issued on that session's channel and is outstanding
\* until call_tool_returns; when none does, execute_tool returns its error
\* result with no call made and the result is appended at once.
execute_requested_tool ==
    /\ chat.pc = "tools"
    /\ chat.k # 0
    /\ Awaited(chat.outstanding)
    /\ LET content_block == chat.response[chat.k]
           r == execute_tool_from(1, content_block.name, NoCall)
           following == IF r.called = <<>> /\ ~LoopContinues(r.result) THEN 0
                        ELSE NextToolUse(chat.response, chat.k + 1)
       IN  IF r.called = <<>>
           THEN /\ chat' = [chat EXCEPT
                              !.tool_results = Append(@, ToolResultBlock(content_block.id,
                                                                         r.result)),
                              !.k = following,
                              !.pc = IF following = 0 /\ chat.outstanding = <<>>
                                     THEN "model2" ELSE "tools"]
                /\ events' = Append(events, ToolEvent(chat.attempt + 1, content_block.id,
                                                      content_block.name))
           ELSE /\ chat' = [chat EXCEPT
                              !.outstanding = Append(@, [session |-> r.called[1],
                                                         id |-> content_block.id,
                                                         name |-> content_block.name]),
                              !.k = following]
                /\ events' = events
    /\ UNCHANGED <<conversation_history, now, metrics>>
    /\ UNCHANGED session_vars

\* session.py 174-190, app.py 176-186: the outstanding call returns or fails,
\* execute_tool turns the outcome into its result, and the loop appends the
\* tool_result block.
call_tool_returns ==
    /\ chat.pc = "tools"
    /\ chat.outstanding # <<>>
    /\ \E out \in ChatCallOutcomes :
          LET call == Head(chat.outstanding)
              r == execute_tool_from(1, call.name, out)
              rest == Tail(chat.outstanding)
              following == IF LoopContinues(r.result) THEN chat.k ELSE 0
          IN  /\ r.called = <<call.session>>
              /\ chat' = [chat EXCEPT
                            !.tool_results = Append(@, ToolResultBlock(call.id, r.result)),
                            !.outstanding = rest,
                            !.k = following,
                            !.pc = IF following = 0 /\ rest = <<>>
                                   THEN "model2" ELSE "tools"]
              /\ events' = Append(events, ToolEvent(chat.attempt + 1, call.id, call.name))
    /\ UNCHANGED <<conversation_history, now, metrics>>
    /\ UNCHANGED session_vars

\* app.py 193-198: the second call names no tools argument.
SecondCallTools_Catalog(all_tools) == <<all_tools>>

SecondCallTools(all_tools) == <<>>

\* app.py 188-204: the tool-request turn and the tool-result turn are
\* appended, the model is called again without a catalog, and its response is
\* appended and its first block's text returned.
second_model_call ==
    /\ chat.pc = "model2"
    /\ \E out \in SecondCallOutcomes :
          LET evs == Append(events,
                            ModelEvent(chat.attempt + 1,
                                       SecondCallTools(get_all_tools(server_sessions)), out))
              with_tools == Append(AppendAssistant(conversation_history, chat.response),
                                   Turn("user", PyList(chat.tool_results)))
          IN  IF out.kind = "raise"
              THEN /\ HandleError(evs, out.error[1])
                   /\ conversation_history' = with_tools
              ELSE /\ conversation_history' =
                          AppendAssistant(with_tools, out.message.content)
                   /\ ReturnResponse(evs, out.message.content[1].text)
    /\ UNCHANGED session_vars

\* app.py 111, 120 and 87: the sleep ends and the loop takes the next value of
\* range(max_retries); when there is none the function falls off its end.
sleep_done ==
    /\ chat.pc = "sleep"
    /\ chat' = IF InRange(chat.attempt + 1, chat.max_retries)
               THEN [chat EXCEPT !.attempt = @ + 1, !.pc = "attempt"]
               ELSE [chat EXCEPT !.pc = "returned", !.ret = <<PyNone>>]
    /\ UNCHANGED <<conversation_history, metrics, events, now>>
    /\ UNCHANGED session_vars

(***************************************************************************)
(* MetricsCollector on its own (metrics.py), as the tests use it: metrics  *)
(* are added one by one and the summary is asked for at any time.          *)
(***************************************************************************)

\* n / d rounded to the nearest integer, a tie going to the even one, as the
\* float formats .1f and .2f round (n >= 0, d > 0).
RoundDiv_Truncates(n, d) == n \div d

RoundDiv(n, d) ==
    LET q == n \div d
        r == n % d
    IN  IF 2 * r > d \/ (2 * r = d /\ q % 2 = 1) THEN q + 1 ELSE q

\* f"{x:.1f}%" for x = tenths / 10
FormatPercent(tenths) == <<ToString(tenths \div 10), ".", ToString(tenths % 10), "%">>

\* f"{x:.2f}" for x = hundredths / 100
FormatSeconds(hundredths) ==
    <<ToString(hundredths \div 100), ".", ToString((hundredths % 100) \div 10),
      ToString(hundredths % 10)>>

\* metrics.py 32: m.end_time - m.start_time for m in self.metrics if m.end_time
Duration(m) ==
    IF m.end_time # <<>> /\ m.end_time[1] # 0 THEN m.end_time[1] - m.start_time ELSE 0

\* metrics.py 31-32: sum(... for m in self.metrics if m.end_time)
RECURSIVE SumDurations(_)
SumDurations(log) ==
    IF log = <<>> THEN 0 ELSE Duration(Head(log)) + SumDurations(Tail(log))

\* metrics.py 28: sum(1 for m in self.metrics if m.success)
RECURSIVE CountSuccessful(_)
CountSuccessful(log) ==
    IF log = <<>> THEN 0
    ELSE (IF Head(log).success THEN 1 ELSE 0) + CountSuccessful(Tail(log))

NoMetricsAvailable == [message |-> "No metrics available"]

\* metrics.py 23-43
get_summary(log) ==
    IF log = <<>> THEN NoMetricsAvailable
    ELSE LET total == Len(log)
             successful == CountSuccessful(log)
         IN  [total_requests |-> total,
              successful |-> successful,
              failed |-> total - successful,
              success_rate |-> FormatPercent(RoundDiv(successful * 1000, total)),
              avg_duration_seconds |->
                  FormatSeconds(RoundDiv(SumDurations(log) * 100, total))]

\* The metrics the tests add (durations 5, 3 and 2) and one left as created.
Sample(request_id, start_time, end_time, success, error_type) ==
    [RequestMetrics(request_id, start_time) EXCEPT !.end_time = end_time,
                                                   !.success = success,
                                                   !.error_type = error_type]

SampleMetrics ==
    {Sample(1, 0, <<5>>, TRUE, <<>>), Sample(2, 0, <<3>>, TRUE, <<>>),
     Sample(3, 0, <<2>>, FALSE, <<"timeout">>), Sample(4, 1, <<>>, FALSE, <<>>)}

add_metric_call ==
    /\ pc = "new"
    /\ Len(metrics) < MaxMetrics
    /\ \E metric \in SampleMetrics :
          /\ metrics' = add_metric(metrics, metric)
          /\ last_op' = [op |-> "add_metric", raised |-> FALSE]
    /\ UNCHANGED <<conversation_history, chat, events, now>>
    /\ UNCHANGED <<config_file, server_configs, server_sessions, channels, pc, idx,
                   stdio, launch_log>>

get_summary_call ==
    /\ pc = "new"
    /\ last_op' = [op |-> "get_summary", result |-> get_summary(metrics),
                   raised |-> FALSE]
    /\ UNCHANGED <<conversation_history, metrics, chat, events, now>>
    /\ UNCHANGED <<config_file, server_configs, server_sessions, channels, pc, idx,
                   stdio, launch_log>>

InitMetrics ==
    /\ config_file = [kind |-> "absent", servers |-> <<>>]
    /\ server_configs = <<>>
    /\ server_sessions = <<>>
    /\ channels = <<>>
    /\ now = 0
    /\ pc = "new"
    /\ idx = 0
    /\ stdio = 0
    /\ launch_log = <<>>
    /\ last_op = NoOp
    /\ conversation_history = <<>>
    /\ metrics = <<>>
    /\ chat = ChatIdle
    /\ events = <<>>

NextMetrics ==
    \/ add_metric_call
    \/ get_summary_call

SpecMetrics == InitMetrics /\ [][NextMetrics]_vars

(***************************************************************************)
(* The conversation: a client whose initialize() has returned (app.py      *)
(* 65-79) with the default configuration, in one of the three states that  *)
(* leaves: the backend ready and healthy, the backend ready and since      *)
(* marked unhealthy, or the backend's launch failed.  The client is fresh, *)
(* or has made one earlier send: a plain exchange with the ready backend,  *)
(* or a send that found no tools after the failed launch.                  *)
(***************************************************************************)
ReadySession == SessionInfo("sqlite-database", 1, <<QueryA, ListT>>, 1)

OpenChannel == [name |-> "sqlite-database", stdio |-> "open", session |-> "open"]

\* The history, the metric log and the clock that one earlier send leaves, the
\* clock reading t before it: chat_with_claude reads the clock three times.
EarlierExchange(t, answered) ==
    [history |-> IF answered
                 THEN <<Turn("user", PyStr(<<"hi">>)),
                        Turn("assistant", PyList(PlainAnswer.content))>>
                 ELSE <<Turn("user", PyStr(<<"hi">>))>>,
     metrics |-> <<[RequestMetrics(TimeReads(t, 3)[1], TimeReads(t, 3)[2])
                      EXCEPT !.end_time = <<TimeReads(t, 3)[3]>>, !.success = TRUE]>>,
     now |-> TimeReads(t, 3)[3]]

Fresh(t) == [history |-> <<>>, metrics |-> <<>>, now |-> t]

InitChat ==
    /\ config_file = [kind |-> "doc", servers |-> DefaultServers]
    /\ pc = "idle"
    /\ idx = 2
    /\ stdio = 0
    /\ \/ /\ server_configs = DefaultServers
          /\ channels = <<OpenChannel>>
          /\ launch_log = <<LogEntry(1, "ready")>>
          /\ \/ /\ server_sessions = <<[ReadySession EXCEPT !.last_check = 2]>>
                /\ last_op = [op |-> "health_check_all", responsive |-> <<TRUE>>,
                              at |-> 1, raised |-> FALSE]
             \/ /\ server_sessions = <<[ReadySession EXCEPT !.last_check = 2,
                                                            !.healthy = FALSE]>>
                /\ last_op = [op |-> "mark_unhealthy", name |-> "sqlite-database",
                              raised |-> FALSE]
       \/ /\ server_configs = <<MCPServerConfig("sqlite-database", FALSE)>>
          /\ channels = <<>>
          /\ launch_log = <<LogEntry(1, "failed")>>
          /\ server_sessions = <<>>
          /\ last_op = [op |-> "health_check_all", responsive |-> <<>>, at |-> 0,
                        raised |-> FALSE]
    /\ \E before \in {Fresh(IF server_sessions = <<>> THEN 0 ELSE 2),
                      EarlierExchange(IF server_sessions = <<>> THEN 0 ELSE 2,
                                      server_sessions # <<>>)} :
          /\ conversation_history = before.history
          /\ metrics = before.metrics
          /\ now = before.now
    /\ chat = ChatIdle
    /\ events = <<>>

NextChat ==
    \/ chat_with_claude_begin
    \/ execute_chat_enter
    \/ first_model_call
    \/ execute_requested_tool
    \/ call_tool_returns
    \/ second_model_call
    \/ sleep_done

SpecChat == InitChat /\ [][NextChat]_vars

(***************************************************************************)
(* The interactive conversation (chat.py 36-75): between sends, which all  *)
(* use the default max_retries, the user may clear the history and ask for *)
(* the metrics summary.                                                    *)
(***************************************************************************)

\* session.py 194-195
get_healthy_server_count(sessions) ==
    Cardinality({i \in DOMAIN sessions : sessions[i].healthy})

\* app.py 211-215: the collector's summary with the two server counts added.
get_metrics_summary_value(log, sessions) ==
    LET summary == get_summary(log)
        added == [healthy_servers |-> get_healthy_server_count(sessions),
                  total_servers |-> Len(sessions)]
    IN  [key \in DOMAIN summary \cup DOMAIN added |->
            IF key \in DOMAIN added THEN added[key] ELSE summary[key]]

get_metrics_summary ==
    /\ pc = "idle"
    /\ chat.pc \in {"idle", "returned"}
    /\ last_op' = [op |-> "get_metrics_summary",
                   result |-> get_metrics_summary_value(metrics, server_sessions),
                   raised |-> FALSE]
    /\ UNCHANGED <<conversation_history, metrics, chat, events, now>>
    /\ UNCHANGED <<config_file, server_configs, server_sessions, channels, pc, idx,
                   stdio, launch_log>>

\* app.py 217-219
clear_conversation_ClearsMetrics ==
    /\ pc = "idle"
    /\ chat.pc \in {"idle", "returned"}
    /\ conversation_history' = <<>>
    /\ metrics' = <<>>
    /\ last_op' = [op |-> "clear_conversation", raised |-> FALSE]
    /\ UNCHANGED <<chat, events, now>>
    /\ UNCHANGED <<config_file, server_configs, server_sessions, channels, pc, idx,
                   stdio, launch_log>>

clear_conversation ==
    /\ pc = "idle"
    /\ chat.pc \in {"idle", "returned"}
    /\ conversation_history' = <<>>
    /\ last_op' = [op |-> "clear_conversation", raised |-> FALSE]
    /\ UNCHANGED <<metrics, chat, events, now>>
    /\ UNCHANGED <<config_file, server_configs, server_sessions, channels, pc, idx,
                   stdio, launch_log>>

NextConversation ==
    \/ chat_with_claude_default
    \/ execute_chat_enter
    \/ first_model_call
    \/ execute_requested_tool
    \/ call_tool_returns
    \/ second_model_call
    \/ sleep_done
    \/ get_metrics_summary
    \/ clear_conversation

SpecConversation == InitChat /\ [][NextConversation]_vars

----------------------------------------------------------------------------
(***************************************************************************)
(* The configuration file as text (session.py 33-79): what json.dump       *)
(* writes, what json.load reads back, and the descriptors made of it.      *)
(***************************************************************************)

MaxLoads == 2

\* A dict display: its items, key and value, in the order written.  The
\* dict it evaluates to iterates in that order, which is the order in which
\* json.dump writes the members.
DictDisplay(items) == [t |-> "display", v |-> items]

Item(key, val) == [key |-> <<key>>, val |-> val]

\* the dict, list or scalar that a display evaluates to
RECURSIVE Value(_)
Value(x) ==
    IF x.t = "display"
    THEN IF x.v = <<>> THEN PyDict(<<>>)
         ELSE PyDict([k \in {x.v[i].key : i \in DOMAIN x.v} |->
                        LET last == CHOOSE i \in DOMAIN x.v :
                                       /\ x.v[i].key = k
                                       /\ \A j \in DOMAIN x.v : x.v[j].key = k => j <= i
                        IN  Value(x.v[last].val)])
    ELSE IF x.t = "list" THEN PyList([i \in DOMAIN x.v |-> Value(x.v[i])])
    ELSE x

RECURSIVE Spaces(_)
Spaces(n) == IF n = 0 THEN <<>> ELSE <<" ">> \o Spaces(n - 1)

\* json.dump(..., indent=2): every element and member starts on a line of
\* its own, indented by two spaces per nesting level
Indent(depth) == <<"\n">> \o Spaces(2 * depth)

BoolText_PythonRepr(b) == IF b THEN "True" ELSE "False"

BoolText(b) == IF b THEN "true" ELSE "false"

RECURSIVE DumpValue(_, _)
RECURSIVE DumpElements(_, _, _)
RECURSIVE DumpItems(_, _, _)

\* the text of one value at a nesting depth
DumpValue(x, depth) ==
    IF x.t = "str" THEN <<Quote>> \o x.v \o <<Quote>>
    ELSE IF x.t = "int" THEN x.v
    ELSE IF x.t = "bool" THEN <<BoolText(x.v)>>
    ELSE IF x.t = "none" THEN <<"null">>
    ELSE IF x.t = "list"
         THEN IF x.v = <<>> THEN <<"[", "]">>
              ELSE <<"[">> \o DumpElements(x.v, 1, depth + 1) \o Indent(depth) \o <<"]">>
    ELSE IF x.v = <<>> THEN <<"{", "}">>
         ELSE <<"{">> \o DumpItems(x.v, 1, depth + 1) \o Indent(depth) \o <<"}">>

\* the elements of a list from the i-th on, separated by commas
DumpElements(l, i, depth) ==
    IF i > Len(l) THEN <<>>
    ELSE Indent(depth) \o DumpValue(l[i], depth)
         \o (IF i < Len(l) THEN <<",">> ELSE <<>>)
         \o DumpElements(l, i + 1, depth)

\* the members of a dict from the i-th on: "key": value
DumpItems(items, i, depth) ==
    IF i > Len(items) THEN <<>>
    ELSE Indent(depth) \o <<Quote>> \o items[i].key \o <<Quote, ":", " ">>
         \o DumpValue(items[i].val, depth)
         \o (IF i < Len(items) THEN <<",">> ELSE <<>>)
         \o DumpItems(items, i + 1, depth)

json_dump(obj) == DumpValue(obj, 0)

\* session.py 15-24: the dataclass's fields, the two without a default, and
\* the defaults of the others
FieldNames == {<<"name">>, <<"script_path">>, <<"enabled">>, <<"timeout">>,
               <<"max_retries">>, <<"health_check_interval">>, <<"metadata">>}

RequiredFields == {<<"name">>, <<"script_path">>}

FieldDefault(f) ==
    IF f = <<"enabled">> THEN PyBool(TRUE)
    ELSE IF f = <<"timeout">> THEN PyNum(<<"3", "0">>)
    ELSE IF f = <<"max_retries">> THEN PyNum(<<"3">>)
    ELSE IF f = <<"health_check_interval">> THEN PyNum(<<"6", "0">>)
    ELSE PyDict(<<>>)

Raises == [ok |-> FALSE, val |-> <<>>]
Returns(x) == [ok |-> TRUE, val |-> x]

\* MCPServerConfig(**server): server has to be a mapping whose keys are field
\* names, the required ones among them; the values are taken as they are
MCPServerConfig_kwargs(server) ==
    IF server.t # "dict" THEN Raises
    ELSE IF ~(DOMAIN server.v \subseteq FieldNames /\ RequiredFields \subseteq DOMAIN server.v)
    THEN Raises
    ELSE Returns([f \in FieldNames |->
                    IF f \in DOMAIN server.v THEN server.v[f] ELSE FieldDefault(f)])

\* what a for loop over a value visits: the elements of a list, the keys of a
\* dict, the characters of a str; other values cannot be iterated
Iterate(x) ==
    IF x.t = "list" THEN Returns(x.v)
    ELSE IF x.t = "dict"
         THEN IF DOMAIN x.v = {} THEN Returns(<<>>) ELSE Returns(<<PyStr(<<>>)>>)
    ELSE IF x.t = "str"
         THEN Returns([i \in DOMAIN x.v |-> PyStr(<<x.v[i]>>)])
    ELSE Raises

\* session.py 41-44: the list comprehension over the given servers value
Comprehension(servers) ==
    LET it == Iterate(servers)
    IN  IF ~it.ok THEN Raises
        ELSE IF \E i \in DOMAIN it.val : ~MCPServerConfig_kwargs(it.val[i]).ok THEN Raises
        ELSE Returns([i \in DOMAIN it.val |-> MCPServerConfig_kwargs(it.val[i]).val])

\* session.py 39-44: json.load and config_data.get("servers", [])
DescriptorsOfText(text) ==
    LET r == json_loads(text)
    IN  IF ~r.ok THEN Raises
        ELSE IF r.val.t # "dict" THEN Raises
        ELSE IF <<"servers">> \in DOMAIN r.val.v
             THEN Comprehension(r.val.v[<<"servers">>])
             ELSE Comprehension(PyList(<<>>))

\* session.py 54-70: the default configuration
DefaultServer ==
    DictDisplay(<<Item("name", PyStr(<<"sqlite-database">>)),
                  Item("script_path", PyStr(<<"mcp_sandbox.server">>)),
                  Item("enabled", PyBool(TRUE)),
                  Item("timeout", PyNum(<<"3", "0">>)),
                  Item("max_retries", PyNum(<<"3">>)),
                  Item("health_check_interval", PyNum(<<"6", "0">>)),
                  Item("metadata",
                       DictDisplay(<<Item("description",
                                          PyStr(<<"SQLite", " ", "database", " ", "MCP",
                                                  " ", "server">>)),
                                     Item("version", PyStr(<<"1.0.0">>))>>))>>)

default_config ==
    DictDisplay(<<Item("servers", PyList(<<DefaultServer>>)),
                  Item("log_level", PyStr(<<"INFO">>))>>)

\* Server entries that configuration files hold: the default one, one that
\* leaves every optional field out, a disabled one, one with a key that is no
\* field of the dataclass, and one without script_path.
SampleServers ==
    {DefaultServer,
     DictDisplay(<<Item("name", PyStr(<<"files">>)),
                   Item("script_path", PyStr(<<"files.py">>))>>),
     DictDisplay(<<Item("script_path", PyStr(<<"files.py">>)),
                   Item("name", PyStr(<<"files">>)),
                   Item("enabled", PyBool(FALSE)),
                   Item("timeout", PyNum(<<"5">>)),
                   Item("metadata", DictDisplay(<<>>))>>),
     DictDisplay(<<Item("name", PyStr(<<"files">>)),
                   Item("script_path", PyStr(<<"files.py">>)),
                   Item("command", PyStr(<<"python">>))>>),
     DictDisplay(<<Item("name", PyStr(<<"files">>))>>)}

SampleDocuments ==
    {DictDisplay(<<Item("servers", PyList(l))>>) : l \in SeqsUpTo(SampleServers, MaxServers)}
    \cup {default_config,
          DictDisplay(<<Item("log_level", PyStr(<<"INFO">>))>>),
          DictDisplay(<<Item("servers", DictDisplay(<<>>))>>),
          DictDisplay(<<Item("servers", PyNone)>>),
          PyList(<<DefaultServer>>)}

TextFile(text) == [kind |-> "text", text |-> text]

\* The sources a client is started with: no file, a file written by
\* json.dump, a file written by hand on one line, a file cut short, and an
\* empty file.
ConfigTexts ==
    {[kind |-> "absent", text |-> <<>>]}
    \cup {TextFile(json_dump(d)) : d \in SampleDocuments}
    \cup {TextFile(<<"{", Quote, "servers", Quote, ":", "[", "{", Quote, "name", Quote, ":",
                     Quote, "files", Quote, ",", Quote, "script_path", Quote, ":",
                     Quote, "files.py", Quote, ",", Quote, "enabled", Quote, ":",
                     "false", "}", "]", "}">>),
          TextFile(SubSeq(json_dump(default_config), 1,
                          Len(json_dump(default_config)) - 1)),
          TextFile(<<>>)}

Assigned_Extended(old, new) == old \o new

\* session.py 41, 75: self.server_configs = [...]
Assigned(old, new) == new

\* session.py 33-79 on the text of the file.  A manager may load any number
\* of times; n counts the loads, and created tells whether one of them found
\* no file and wrote the default one.
load_configuration_text ==
    /\ pc = "new"
    /\ last_op.op \in {"none", "load_configuration"}
    /\ LET n == IF last_op.op = "none" THEN 0 ELSE last_op.n
           created == IF last_op.op = "none" THEN FALSE ELSE last_op.created
       IN  /\ n < MaxLoads
           /\ IF config_file.kind = "text"
              THEN LET r == DescriptorsOfText(config_file.text)
                   IN  /\ server_configs' = IF r.ok THEN Assigned(server_configs, r.val)
                                            ELSE server_configs
                       /\ config_file' = config_file
                       /\ last_op' = [op |-> "load_configuration", raised |-> ~r.ok,
                                      n |-> n + 1, created |-> created]
              ELSE /\ config_file' = TextFile(json_dump(default_config))
                   /\ server_configs' =
                         Assigned(server_configs,
                                  Comprehension(Value(default_config).v[<<"servers">>]).val)
                   /\ last_op' = [op |-> "load_configuration", raised |-> FALSE,
                                  n |-> n + 1, created |-> TRUE]
    /\ UNCHANGED <<server_sessions, channels, now, pc, idx, stdio, launch_log>>
    /\ UNCHANGED chat_vars

InitConfig ==
    /\ config_file \in ConfigTexts
    /\ server_configs = <<>>
    /\ server_sessions = <<>>
    /\ channels = <<>>
    /\ now = 0
    /\ pc = "new"
    /\ idx = 0
    /\ stdio = 0
    /\ launch_log = <<>>
    /\ last_op = NoOp
    /\ conversation_history = <<>>
    /\ metrics = <<>>
    /\ chat = ChatIdle
    /\ events = <<>>

NextConfig == load_configuration_text

SpecConfig == InitConfig /\ [][NextConfig]_vars

Init ==
    /\ config_file \in ConfigSources
    /\ server_configs = <<>>
    /\ server_sessions = <<>>
    /\ channels = <<>>
    /\ now = 0
    /\ pc = "new"
    /\ idx = 0
    /\ stdio = 0
    /\ launch_log = <<>>
    /\ last_op = NoOp
    /\ conversation_history = <<>>
    /\ metrics = <<>>
    /\ chat = ChatIdle
    /\ events = <<>>

Next ==
    \/ load_configuration
    \/ initialize_servers_begin
    \/ LaunchSkip
    \/ LaunchSpawn
    \/ LaunchEnter
    \/ LaunchInitialize
    \/ LaunchListTools
    \/ LaunchReturn
    \/ health_check_all
    \/ execute_tool
    \/ MarkUnhealthy

\* app.py 65-79: what initialize() has returned, if it has.  A raise of
\* load_configuration reaches the except clause and False is returned;
\* initialize_servers catches every launch failure itself and health_check_all
\* raises nothing, so that True is returned once health_check_all is done.
initialize_result ==
    IF pc = "failed" THEN <<FALSE>>
    ELSE IF pc = "idle" /\ last_op.op = "health_check_all" THEN <<TRUE>>
    ELSE <<>>

Spec == Init /\ [][Next]_vars

(***************************************************************************)
(* Teardown (session.py 197-212): the client is started and then closed.   *)
(***************************************************************************)

\* What closing one session's two context managers can do: both exits
\* return, the protocol session's exit raises, or the transport's exit raises.
CloseOutcomes == {"closed", "session_raises", "stdio_raises"}

\* session.py 201-212: one pass of the loop.  The exits are awaited in the
\* order session, stdio inside one try; an exception leaves the try at once
\* and is logged.
cleanup_session(chans, session_info, outcome) ==
    IF outcome = "session_raises"
    THEN [chans EXCEPT ![session_info.session].session = "error"]
    ELSE [chans EXCEPT ![session_info.session].session = "closed",
                       ![session_info.stdio].stdio =
                            IF outcome = "stdio_raises" THEN "error" ELSE "closed"]

\* session.py 200: the loop over the registry's items from item i on.
RECURSIVE cleanup_from(_, _, _)
cleanup_from(i, chans, outcomes) ==
    IF i > Len(server_sessions) THEN chans
    ELSE cleanup_from(i + 1, cleanup_session(chans, server_sessions[i], outcomes[i]),
                      outcomes)

\* session.py 197-212, app.py 221-222, main.py 46: cleanup is the last call
\* made on the client.  The registry is left as it is.
cleanup ==
    /\ pc = "idle"
    /\ \E outcomes \in [DOMAIN server_sessions -> CloseOutcomes] :
          /\ channels' = cleanup_from(1, channels, outcomes)
          /\ last_op' = [op |-> "cleanup", outcomes |-> outcomes, raised |-> FALSE]
    /\ pc' = "closed"
    /\ UNCHANGED <<config_file, server_configs, server_sessions, now, idx, stdio,
                   launch_log>>
    /\ UNCHANGED chat_vars

NextTeardown ==
    \/ load_configuration
    \/ initialize_servers_begin
    \/ LaunchSkip
    \/ LaunchSpawn
    \/ LaunchEnter
    \/ LaunchInitialize
    \/ LaunchListTools
    \/ LaunchReturn
    \/ health_check_all
    \/ cleanup

SpecTeardown == Init /\ [][NextTeardown]_vars

----------------------------------------------------------------------------
(* Properties of initialize_servers *)

\* the descriptors as load_configuration read them, before any launch
Loaded == config_file.servers

EnabledIn(configs) == {i \in DOMAIN configs : configs[i].enabled}

LaunchPcs == {"next", "enter", "initialize", "list_tools"}

Returned == last_op.op = "initialize_servers" /\ last_op.done

\* the log entries of the launches of descriptors named n that went through
ReadyFor(n) ==
    {j \in DOMAIN launch_log :
        launch_log[j].outcome = "ready" /\ Loaded[launch_log[j].index].name = n}

\* C1: the registry holds a session only for a descriptor that was enabled and
\* whose launch went through all its steps; a disabled descriptor is passed
\* over without a spawn; there are never more sessions than enabled descriptors.
C1_SessionsOnlyForLaunchedEnabled ==
    /\ \A k \in DOMAIN server_sessions :
          \E j \in ReadyFor(server_sessions[k].name) : Loaded[launch_log[j].index].enabled
    /\ \A j \in DOMAIN launch_log :
          ~Loaded[launch_log[j].index].enabled <=> launch_log[j].outcome = "skipped"
    /\ Len(channels) <= Cardinality(EnabledIn(Loaded))
    /\ Len(server_sessions) <= Cardinality(EnabledIn(Loaded))
    /\ Len(server_sessions) <= Cardinality(EnabledIn(server_configs))

\* a run over a disabled and an enabled descriptor has returned with one session
W1_DisabledSkippedEnabledLaunched ==
    /\ Returned
    /\ Len(server_sessions) = 1
    /\ \E j \in DOMAIN launch_log : launch_log[j].outcome = "skipped"

\* C2: a step in which a launch fails clears that descriptor's enabled flag,
\* leaves the registry as it was and goes on with the next descriptor; when
\* initialize_servers returns, no error has escaped and every descriptor that
\* was enabled has been attempted.
C2_FailureDisablesAndContinues ==
    [][ /\ (Len(launch_log') > Len(launch_log)
             /\ launch_log'[Len(launch_log')].outcome = "failed")
          => /\ ~server_configs'[idx].enabled
             /\ \A i \in DOMAIN server_configs :
                   i # idx => server_configs'[i] = server_configs[i]
             /\ server_sessions' = server_sessions
             /\ pc' = "next" /\ idx' = idx + 1
             /\ ~last_op'.raised
        /\ (pc \in LaunchPcs /\ pc' \notin LaunchPcs)
          => /\ pc' = "idle" /\ Returned' /\ ~last_op'.raised
             /\ \A i \in EnabledIn(Loaded) :
                   \E j \in DOMAIN launch_log' :
                      /\ launch_log'[j].index = i
                      /\ launch_log'[j].outcome \in {"ready", "failed"}
      ]_vars

\* the first descriptor's launch failed, the second was launched all the same
W2_LaterDescriptorLaunchedAfterFailure ==
    /\ Returned
    /\ Len(launch_log) = 2
    /\ launch_log[1].outcome = "failed" /\ launch_log[2].outcome = "ready"
    /\ ~server_configs[1].enabled
    /\ Len(server_sessions) = 1

\* C3: every entry of the registry has its channel handles, the tool list the
\* backend returned and a last-check time read from the clock; while
\* initialize_servers runs, and when it returns, every entry is healthy and
\* its channel is open, and the launch in progress has no entry yet; a name
\* none of whose launches went through has no entry.
C3_RegistryEntriesFullyInitialized ==
    \A k \in DOMAIN server_sessions :
        LET s == server_sessions[k]
        IN  /\ s.session \in DOMAIN channels /\ s.stdio \in DOMAIN channels
            /\ channels[s.session].name = s.name
            /\ s.tools \in ToolLists
            /\ s.last_check >= 1 /\ s.last_check <= now
            /\ ReadyFor(s.name) # {}
            /\ (pc \in LaunchPcs \/ Returned)
                  => /\ s.healthy
                     /\ channels[s.session].session = "open"
                     /\ channels[s.stdio].stdio = "open"
                     /\ s.session # stdio /\ s.stdio # stdio

\* a launch is past the spawn, or has failed after it, while an earlier
\* descriptor's session is in the registry
W3_EntryVisibleDuringLaterLaunch ==
    /\ Len(server_sessions) = 1
    /\ Len(channels) = 2
    /\ \/ pc \in {"enter", "initialize", "list_tools"}
       \/ \E j \in DOMAIN launch_log : launch_log[j].outcome = "failed"

----------------------------------------------------------------------------
(* Properties of get_all_tools and execute_tool *)

\* the catalog as the concatenation, over the registry in order, of the
\* healthy sessions' tool lists in the model-facing schema
CatalogOf(sessions) ==
    Flatten([i \in DOMAIN sessions |->
               IF sessions[i].healthy
               THEN [k \in DOMAIN sessions[i].tools |->
                       [name |-> sessions[i].tools[k].name,
                        description |-> sessions[i].tools[k].description,
                        input_schema |-> sessions[i].tools[k].inputSchema]]
               ELSE <<>>])

\* C4: get_all_tools returns the tools of the healthy sessions and no others,
\* sessions in registration order, each session's tools in advertised order.
C4_CatalogIsToolsOfHealthySessions ==
    /\ get_all_tools(server_sessions) = CatalogOf(server_sessions)
    /\ Len(get_all_tools(server_sessions))
         = Len(Flatten([i \in DOMAIN server_sessions |->
                          IF server_sessions[i].healthy THEN server_sessions[i].tools
                          ELSE <<>>]))

\* an unhealthy session with tools is registered before a healthy one with tools
W4_UnhealthyBeforeHealthy ==
    /\ Len(server_sessions) = 2
    /\ ~server_sessions[1].healthy /\ server_sessions[1].tools # <<>>
    /\ server_sessions[2].healthy /\ server_sessions[2].tools # <<>>
    /\ Len(get_all_tools(server_sessions)) = 2

\* the sessions that are healthy and advertise the tool of the last execute_tool
Candidates ==
    {i \in DOMAIN server_sessions :
        /\ server_sessions[i].healthy
        /\ \E k \in DOMAIN server_sessions[i].tools :
              server_sessions[i].tools[k].name = last_op.tool_name}

\* C5: execute_tool calls exactly one session, the first in registration
\* order that is healthy and advertises the tool, whatever that call does;
\* no other session is called.
C5_FirstHealthyMatchOnly ==
    last_op.op = "execute_tool" =>
        IF Candidates = {} THEN last_op.called = <<>>
        ELSE last_op.called = <<CHOOSE i \in Candidates : \A j \in Candidates : i <= j>>

\* two healthy sessions advertise the tool and the first one's call failed
W5_FirstOfTwoCalledAndFailed ==
    /\ last_op.op = "execute_tool"
    /\ Cardinality(Candidates) = 2
    /\ last_op.called = <<1>>
    /\ last_op.out[1].kind = "raise"

\* C6: when no healthy session advertises the tool, execute_tool calls no
\* backend, raises nothing and returns the error value
\* {"error": "Tool <name> not found on any healthy server"}.
C6_NotFoundWithoutBackendCall ==
    (last_op.op = "execute_tool" /\ Candidates = {}) =>
        /\ last_op.called = <<>>
        /\ ~last_op.raised
        /\ last_op.result.t = "dict"
        /\ DOMAIN last_op.result.v = {<<"error">>}
        /\ last_op.result.v[<<"error">>].t = "str"
        /\ last_op.result.v[<<"error">>].v
             = <<"Tool ", last_op.tool_name, " not found on any healthy server">>

\* a tool no session advertises is asked of two healthy sessions with tools
W6_UnknownToolAskedOfHealthySessions ==
    /\ last_op.op = "execute_tool"
    /\ last_op.tool_name = "nonexistent_tool"
    /\ Len(server_sessions) = 2
    /\ \A i \in DOMAIN server_sessions :
          server_sessions[i].healthy /\ server_sessions[i].tools # <<>>
    /\ last_op.result.t = "dict" /\ DOMAIN last_op.result.v = {<<"error">>}

\* C7: when the backend call raises, execute_tool raises nothing, returns
\* {"error": "Tool execution failed: <the backend's error text>"} and leaves
\* the registry and the channels as they were.
C7_BackendFailureIsAResult ==
    [][ (/\ last_op'.op = "execute_tool"
         /\ last_op'.called # <<>>
         /\ last_op'.out[1].kind = "raise")
          => /\ ~last_op'.raised
             /\ last_op'.result.t = "dict"
             /\ DOMAIN last_op'.result.v = {<<"error">>}
             /\ last_op'.result.v[<<"error">>].t = "str"
             /\ last_op'.result.v[<<"error">>].v
                  = <<"Tool execution failed: ">> \o last_op'.out[1].error
             /\ server_sessions' = server_sessions
             /\ channels' = channels
      ]_vars

\* a call failed with the backend's text "connection closed"
W7_BackendRaised ==
    /\ last_op.op = "execute_tool"
    /\ last_op.called # <<>>
    /\ last_op.out[1].kind = "raise"
    /\ last_op.out[1].error = <<"connection closed">>
    /\ last_op.result.v[<<"error">>].v = <<"Tool execution failed: ", "connection closed">>

\* what execute_tool is to return for each content list a backend sends
ExpectedResult(content) ==
    CASE content = <<>> ->
           PyDict((<<"success">> :> PyBool(TRUE)) @@ (<<"result">> :> PyStr(<<"No content">>)))
      [] content = SplitObject ->
           PyDict(<<"a">> :> PyNum(<<"1">>))
      [] content = ArrayText ->
           PyList(<<PyNum(<<"1", "2">>), PyStr(<<"b">>)>>)
      [] content = Unfinished ->
           PyDict((<<"success">> :> PyBool(TRUE))
                  @@ (<<"result">> :> PyStr(<<"{", Quote, "a", Quote, ":", "1">>)))
      [] content = EmptyText ->
           PyDict((<<"success">> :> PyBool(TRUE)) @@ (<<"result">> :> PyStr(<<>>)))
      [] content = WithImage ->
           PyDict((<<"success">> :> PyBool(TRUE))
                  @@ (<<"result">> :> PyStr(<<"[", "ImageContent()", "]">>)))

\* equality of two Python values, the types first
SameValue(x, y) == x.t = y.t /\ x.v = y.v

\* C8: for a call that came back, execute_tool returns the decoded value when
\* the concatenated text of the content items is valid JSON, {success: true,
\* result: text} when it is not, and {success: true, result: "No content"}
\* for an empty content list.
C8_ResultDecodedOrWrapped ==
    (/\ last_op.op = "execute_tool"
     /\ last_op.called # <<>>
     /\ last_op.out[1].kind = "result")
      => /\ ~last_op.raised
         /\ SameValue(last_op.result, ExpectedResult(last_op.out[1].content))

\* the backend sent {"a": 1} in two content items and the dict came back
W8_JsonAcrossTwoItemsDecoded ==
    /\ last_op.op = "execute_tool"
    /\ last_op.called # <<>>
    /\ last_op.out[1].kind = "result"
    /\ last_op.out[1].content = SplitObject
    /\ last_op.result.t = "dict"
    /\ DOMAIN last_op.result.v = {<<"a">>}

\* the registry without its i-th item
Without(sessions, i) == SubSeq(sessions, 1, i - 1) \o SubSeq(sessions, i + 1, Len(sessions))

\* C9: while a registered session's healthy flag is false, get_all_tools is
\* the catalog of the other sessions, and execute_tool calls no unhealthy
\* session: a tool that only unhealthy sessions advertise is not found.
C9_UnhealthySessionNotRoutable ==
    /\ \A i \in DOMAIN server_sessions :
          ~server_sessions[i].healthy
            => get_all_tools(server_sessions) = CatalogOf(Without(server_sessions, i))
    /\ last_op.op = "execute_tool"
         => /\ \A k \in DOMAIN last_op.called : server_sessions[last_op.called[k]].healthy
            /\ Candidates = {}
                 => /\ last_op.called = <<>>
                    /\ last_op.result.t = "dict"
                    /\ DOMAIN last_op.result.v = {<<"error">>}

\* a tool of a session marked unhealthy after its launch was asked for, while
\* another session is healthy, and was not found
W9_ToolOfUnhealthySessionNotFound ==
    /\ last_op.op = "execute_tool"
    /\ Len(server_sessions) = 2
    /\ \E i, j \in DOMAIN server_sessions :
          /\ ~server_sessions[i].healthy
          /\ server_sessions[i].tools # <<>>
          /\ \E k \in DOMAIN server_sessions[i].tools :
                server_sessions[i].tools[k].name = last_op.tool_name
          /\ server_sessions[j].healthy
    /\ last_op.called = <<>>
    /\ get_all_tools(server_sessions) = <<>>

----------------------------------------------------------------------------
(* Properties of health_check_all *)

\* C10: after health_check_all every session's healthy flag is the outcome of
\* a liveness probe of its backend: false for a backend that does not answer.
C10_HealthyFollowsProbe ==
    last_op.op = "health_check_all" =>
        \A i \in DOMAIN server_sessions :
            server_sessions[i].healthy = last_op.responsive[i]

-----------------------------------------------------------------------------
(***************************************************************************)
(* The catalog's names (Spec)                                              *)
(***************************************************************************)

\* C30: the catalog returned by get_all_tools is de-duplicated by name: no
\* two of its entries carry the same tool name, also when two healthy
\* sessions advertise the same name.
C30_CatalogNamesUnique ==
    LET all_tools == get_all_tools(server_sessions)
    IN  \A a, b \in DOMAIN all_tools : all_tools[a].name = all_tools[b].name => a = b

(***************************************************************************)
(* Startup with a broken or a missing configuration (Spec)                 *)
(***************************************************************************)

\* C27: a configuration source that exists but cannot be parsed makes
\* load_configuration raise, after which no backend is launched and
\* initialize() returns False; nothing else makes load_configuration raise
\* or initialize() return False, so an absent source never fails, and
\* initialize() returns True whatever the outcomes of the launches were.
C27_OnlyMalformedSourceFailsStartup ==
    /\ config_file.kind = "malformed" =>
          /\ pc \in {"new", "failed"}
          /\ server_sessions = <<>> /\ channels = <<>> /\ launch_log = <<>>
          /\ pc = "failed" =>
                /\ last_op.op = "load_configuration" /\ last_op.raised
                /\ initialize_result = <<FALSE>>
    /\ (last_op.op = "load_configuration" /\ last_op.raised) =>
          config_file.kind = "malformed"
    /\ initialize_result = <<FALSE>> => config_file.kind = "malformed"
    /\ (pc = "idle" /\ last_op.op = "health_check_all") => initialize_result = <<TRUE>>

\* initialize() has returned True although the one backend of the synthesized
\* default configuration failed to launch.
W27_SuccessWithEveryLaunchFailed ==
    /\ initialize_result = <<TRUE>>
    /\ launch_log = <<LogEntry(1, "failed")>>
    /\ server_sessions = <<>>
    /\ config_file = [kind |-> "doc", servers |-> DefaultServers]

(***************************************************************************)
(* Teardown (SpecTeardown)                                                 *)
(***************************************************************************)

\* C24: cleanup closes every open channel of every registered session, the
\* protocol session and the subprocess transport alike, and a failure while
\* closing one of them does not escape and leaves no other channel unclosed:
\* once cleanup has returned, it has not raised, and every channel of every
\* registered session is closed except the ones whose own close failed.
C24_CleanupClosesEveryChannel ==
    last_op.op = "cleanup" =>
        /\ ~last_op.raised
        /\ \A i \in DOMAIN server_sessions :
              /\ channels[server_sessions[i].session].session \in {"closed", "error"}
              /\ channels[server_sessions[i].stdio].stdio \in {"closed", "error"}

\* The session's protocol channel or its transport has been closed.
ChannelClosed(session_info) ==
    \/ channels[session_info.session].session = "closed"
    \/ channels[session_info.stdio].stdio = "closed"

\* C36: after cleanup no tool call is forwarded over a closed channel: a
\* session whose channel was closed contributes no tool to the catalog of
\* get_all_tools, and execute_tool calls it for none of the tools it
\* advertises.
C36_ClosedSessionsNotRoutable ==
    last_op.op = "cleanup" =>
        \A i \in DOMAIN server_sessions :
            ChannelClosed(server_sessions[i]) =>
                /\ get_all_tools(<<server_sessions[i]>>) = <<>>
                /\ \A k \in DOMAIN server_sessions[i].tools :
                      execute_tool_from(1, server_sessions[i].tools[k].name,
                                        NoCall).called # <<i>>

(***************************************************************************)
(* Ownership of the subprocess channels (Spec)                             *)
(***************************************************************************)

\* The registered sessions that hold channel c as their transport.
OwnersOf(c) == {i \in DOMAIN server_sessions : server_sessions[i].stdio = c}

\* Channel c is the one of the launch in progress, not yet handed to a session.
BeingLaunched(c) == pc \in {"enter", "initialize", "list_tools"} /\ stdio = c

\* C37: every subprocess channel that initialize_servers opened is, once its
\* launch is over, either owned by exactly one registered session or closed;
\* a launch that fails after the spawn leaves no open channel without an
\* owner, and neither does a launch that replaces a session of the same name.
C37_NoOpenOrphanChannel ==
    \A c \in DOMAIN channels :
        (channels[c].stdio = "open" /\ ~BeingLaunched(c)) => Cardinality(OwnersOf(c)) = 1

(***************************************************************************)
(* The conversation (SpecChat).                                            *)
(***************************************************************************)

EventsOf(evs, ev) == SelectSeq(evs, LAMBDA e : e.ev = ev)

AttemptStarts == {i \in DOMAIN events : events[i].ev = "attempt"}

\* The events of the exchange attempt in progress or last made.
ThisAttempt ==
    IF AttemptStarts = {} THEN <<>>
    ELSE SubSeq(events, CHOOSE i \in AttemptStarts : \A j \in AttemptStarts : j <= i,
                Len(events))

SameTurn(a, b) ==
    /\ a.role = b.role
    /\ a.content.t = b.content.t
    /\ a.content.v = b.content.v

ReturnedText(text) == chat.pc = "returned" /\ chat.ret = <<PyStr(text)>>

\* The attempt's first model call was answered, with a tool_use stop or not.
FirstResponse(tool_use) ==
    /\ Len(ThisAttempt) >= 2
    /\ ThisAttempt[2].ev = "model"
    /\ ThisAttempt[2].out.kind = "response"
    /\ (ThisAttempt[2].out.message.stop_reason = "tool_use") = tool_use

\* C11: in an exchange attempt whose first model response is plain text (the
\* catalog being non-empty), the attempt makes exactly one model call and no
\* execute_tool call, the history grows by exactly two turns, the user
\* message and then the assistant response, and the send returns the text
\* of the response and is recorded as a success.
C11_PlainResponseOneCallTwoTurns ==
    FirstResponse(FALSE) =>
        LET m == ThisAttempt[2].out.message
            n == ThisAttempt[1].turns
        IN  /\ ThisAttempt[2].tools # <<>> /\ ThisAttempt[2].tools[1] # <<>>
            /\ Len(EventsOf(ThisAttempt, "model")) = 1
            /\ EventsOf(ThisAttempt, "tool") = <<>>
            /\ Len(conversation_history) = n + 2
            /\ SameTurn(conversation_history[n + 1],
                        Turn("user", PyStr(chat.user_message)))
            /\ SameTurn(conversation_history[n + 2],
                        Turn("assistant", PyList(m.content)))
            /\ ReturnedText(m.content[1].text)
            /\ metrics[Len(metrics)].success

W11_PlainAnswerAfterEarlierExchange ==
    /\ FirstResponse(FALSE)
    /\ ThisAttempt[1].turns = 2
    /\ ReturnedText(<<"hello">>)

\* The tool_use blocks of a response content, in order.
Requests(content) == SelectSeq(content, LAMBDA b : b.type = "tool_use")

\* The attempt made its second model call.
SecondCallMade == Len(EventsOf(ThisAttempt, "model")) = 2

\* C12: in an exchange attempt whose first response requests n >= 1 tool
\* uses, execute_tool is called once per request in the order requested (a
\* prefix of the requests while the tool loop runs, all of them after it);
\* the history then gets, after the user turn, the assistant tool-request
\* turn and one tool-result turn holding n results, the i-th keyed with the
\* call identifier of the i-th request, and, when the second model call
\* answers, the final assistant turn, whose text is returned.
C12_ToolsRunOncePerRequestInOrder ==
    (FirstResponse(TRUE) /\ Requests(ThisAttempt[2].out.message.content) # <<>>) =>
        LET m == ThisAttempt[2].out.message
            requests == Requests(m.content)
            calls == EventsOf(ThisAttempt, "tool")
            n == ThisAttempt[1].turns
            h == conversation_history
        IN  /\ Len(calls) <= Len(requests)
            /\ \A i \in DOMAIN calls : /\ calls[i].id = requests[i].id
                                       /\ calls[i].name = requests[i].name
            /\ chat.pc # "tools" => Len(calls) = Len(requests)
            /\ ~SecondCallMade => Len(h) = n + 1
            /\ SecondCallMade =>
                  /\ Len(h) >= n + 3
                  /\ SameTurn(h[n + 2], Turn("assistant", PyList(m.content)))
                  /\ h[n + 3].role = "user"
                  /\ h[n + 3].content.t = "list"
                  /\ Len(h[n + 3].content.v) = Len(requests)
                  /\ \A i \in DOMAIN requests :
                        /\ h[n + 3].content.v[i].type = "tool_result"
                        /\ h[n + 3].content.v[i].tool_use_id = requests[i].id
                  /\ IF ThisAttempt[Len(ThisAttempt)].ev = "model"
                        /\ ThisAttempt[Len(ThisAttempt)].out.kind = "response"
                     THEN LET final == ThisAttempt[Len(ThisAttempt)].out.message
                          IN  /\ Len(h) = n + 4
                              /\ SameTurn(h[n + 4], Turn("assistant", PyList(final.content)))
                              /\ ReturnedText(final.content[1].text)
                     ELSE Len(h) = n + 3

W12_TwoToolsRunAndAnswered ==
    /\ FirstResponse(TRUE)
    /\ Len(EventsOf(ThisAttempt, "tool")) = 2
    /\ EventsOf(ThisAttempt, "tool")[1].id = "toolu_1"
    /\ ThisAttempt[1].turns = 2
    /\ SecondCallMade
    /\ ReturnedText(<<"done">>)

\* The positions in the attempt's events of its events of one kind.
PositionsOf(ev) == {i \in DOMAIN ThisAttempt : ThisAttempt[i].ev = ev}

\* C13: an exchange attempt makes at most two model calls, the first with the
\* catalog and the second with none; its execute_tool calls all lie between
\* the two (one tool-execution phase, never re-entered after the second
\* call); and the answer to the second call is returned as the final text.
C13_SecondCallWithoutToolsIsFinal ==
    LET calls == EventsOf(ThisAttempt, "model")
    IN  /\ Len(calls) <= 2
        /\ Len(calls) >= 1 => calls[1].tools # <<>>
        /\ Len(calls) = 2 => calls[2].tools = <<>>
        /\ \A t \in PositionsOf("tool") :
              /\ \E c \in PositionsOf("model") : c < t
              /\ Len(calls) = 2 => \E c \in PositionsOf("model") : t < c
        /\ (Len(calls) = 2 /\ calls[2].out.kind = "response") =>
              /\ ReturnedText(calls[2].out.message.content[1].text)
              /\ metrics[Len(metrics)].success

W13_SecondCallAfterOneToolAnswered ==
    /\ SecondCallMade
    /\ Len(EventsOf(ThisAttempt, "tool")) = 1
    /\ EventsOf(ThisAttempt, "model")[2].tools = <<>>
    /\ ReturnedText(<<"done">>)

\* C14: a send that starts an exchange attempt while the aggregated catalog
\* is empty (no session, or none healthy) makes no model call and no
\* execute_tool call, returns the fixed 'No MCP tools currently available'
\* text from its first attempt, and records exactly one metric, with its end
\* time set, no error kind and success = true.
C14_EmptyCatalogShortCircuits ==
    (ThisAttempt # <<>> /\ get_all_tools(server_sessions) = <<>>) =>
        /\ events = <<events[1], AttemptEvent(1, events[1].turns)>>
        /\ EventsOf(events, "model") = <<>>
        /\ EventsOf(events, "tool") = <<>>
        /\ ReturnedText(NoToolsText)
        /\ Len(metrics) = events[1].recorded + 1
        /\ metrics[Len(metrics)].error_type = <<>>
        /\ metrics[Len(metrics)].end_time # <<>>
        /\ metrics[Len(metrics)].success

W14_NoToolsFromUnhealthySession ==
    /\ ReturnedText(NoToolsText)
    /\ server_sessions # <<>>
    /\ events[1].recorded = 1
    /\ Len(metrics) = 2

Attempts == Len(EventsOf(events, "attempt"))

\* Attempt a of the call ended with the model client raising exception e.
AttemptRaised(a, e) ==
    \E i \in DOMAIN events : /\ events[i].ev = "model"
                             /\ events[i].attempt = a
                             /\ events[i].out = Raised(e)

LastMetric == metrics[Len(metrics)]

\* C15: a send never starts more than max_retries exchange attempts; a send
\* that has returned and whose every attempt ended in a timeout of a model
\* call made exactly max_retries attempts, returned the text 'Request timed
\* out after <max_retries> attempts' behind the error marker, and recorded
\* one metric with error kind 'timeout' and success = false.
C15_TimeoutOnEveryAttemptExhausts ==
    /\ Attempts <= chat.max_retries
    /\ (/\ chat.pc = "returned"
        /\ Attempts >= 1
        /\ \A a \in 1..Attempts : AttemptRaised(a, APITimeoutError)) =>
           /\ Attempts = chat.max_retries
           /\ ReturnedText(<<ErrorMarker, " Request timed out after ",
                             ToString(chat.max_retries), " attempts">>)
           /\ Len(metrics) = events[1].recorded + 1
           /\ LastMetric.error_type = <<"timeout">>
           /\ ~LastMetric.success

W15_ThreeTimeoutsOfThree ==
    /\ chat.pc = "returned"
    /\ chat.max_retries = 3
    /\ Attempts = 3
    /\ \A a \in 1..3 : AttemptRaised(a, APITimeoutError)
    /\ chat.ret = <<PyStr(<<ErrorMarker, " Request timed out after ", "3", " attempts">>)>>

\* The model call at position i of events raised exception e.
RaisedAt(i, e) == events[i].ev = "model" /\ events[i].out = Raised(e)

\* The sleep that follows the call at position i, if any.
SleepAfter(i) ==
    IF i < Len(events) /\ events[i + 1].ev = "sleep" THEN <<events[i + 1].delay>> ELSE <<>>

\* C16: when attempt k of a send ends in a timeout and k is not the last
\* allowed attempt, the send sleeps 2^(k-1) units (1, 2, 4, ...) before the
\* next attempt; after a timeout of the last allowed attempt it does not sleep.
C16_TimeoutBackoffDoubles ==
    \A i \in DOMAIN events :
        RaisedAt(i, APITimeoutError) =>
            SleepAfter(i) = IF events[i].attempt < chat.max_retries
                            THEN <<2 ^ (events[i].attempt - 1)>>
                            ELSE <<>>

W16_SleptOneThenTwo ==
    \E i, j \in DOMAIN events :
        /\ RaisedAt(i, APITimeoutError) /\ events[i].attempt = 1 /\ SleepAfter(i) = <<1>>
        /\ RaisedAt(j, APITimeoutError) /\ events[j].attempt = 2 /\ SleepAfter(j) = <<2>>
        /\ chat.pc = "returned"
        /\ AttemptRaised(3, APITimeoutError)

\* C17: when attempt k of a send ends in a rate-limit failure and k is not
\* the last allowed attempt, the send sleeps 5 * k units (5, 10, 15, ...),
\* a larger first delay than the timeout backoff's; when the last allowed
\* attempt ends in a rate-limit failure the send does not sleep, returns the
\* 'Rate limit exceeded' text and records error kind 'rate_limit'.
C17_RateLimitBackoffLinear ==
    /\ RateLimitDelay(0) > TimeoutDelay(0)
    /\ \A i \in DOMAIN events :
          RaisedAt(i, RateLimitError) =>
              IF events[i].attempt < chat.max_retries
              THEN SleepAfter(i) = <<5 * events[i].attempt>>
              ELSE /\ SleepAfter(i) = <<>>
                   /\ ReturnedText(<<ErrorMarker,
                                     " Rate limit exceeded. Please try again later.">>)
                   /\ Len(metrics) = events[1].recorded + 1
                   /\ LastMetric.error_type = <<"rate_limit">>
                   /\ ~LastMetric.success

W17_SleptFiveThenTenThenGaveUp ==
    \E i, j \in DOMAIN events :
        /\ RaisedAt(i, RateLimitError) /\ events[i].attempt = 1 /\ SleepAfter(i) = <<5>>
        /\ RaisedAt(j, RateLimitError) /\ events[j].attempt = 2 /\ SleepAfter(j) = <<10>>
        /\ AttemptRaised(3, RateLimitError)
        /\ LastMetric.error_type = <<"rate_limit">>
        /\ chat.pc = "returned"

\* C18: when a model call of a send raises a failure that is neither a
\* timeout nor a rate limit, that call is the last thing the send does: no
\* sleep and no further attempt follow, whatever max_retries allows; one
\* metric is recorded with the failure's kind and success = false, and the
\* text returned is the failure's message behind the error marker.
C18_OtherFailureNotRetried ==
    \A i \in DOMAIN events :
        \A e \in ModelErrors \ {APITimeoutError, RateLimitError} :
            RaisedAt(i, e) =>
                /\ i = Len(events)
                /\ ReturnedText(<<ErrorMarker, " Error: ", e.msg>>)
                /\ Len(metrics) = events[1].recorded + 1
                /\ LastMetric.error_type = <<e.name>>
                /\ LastMetric.end_time # <<>>
                /\ ~LastMetric.success

W18_ConnectionErrorOnFirstOfThree ==
    /\ chat.max_retries = 3
    /\ Attempts = 1
    /\ SecondCallMade
    /\ RaisedAt(Len(events), APIConnectionError)
    /\ chat.pc = "returned"

\* C19: a send that has returned has appended exactly one metric to the
\* collector, with its end time set, whatever max_retries it was given and
\* whatever the model did.
C19_OneMetricPerInvocation ==
    chat.pc = "returned" =>
        /\ Len(metrics) = events[1].recorded + 1
        /\ LastMetric.end_time # <<>>
        /\ LastMetric.request_id = chat.request[1].request_id

\* C20: a send that has returned has returned one text value, never None,
\* whatever max_retries it was given (0 included) and whatever the model
\* and the backends did.
C20_AlwaysReturnsText ==
    chat.pc = "returned" =>
        /\ Len(chat.ret) = 1
        /\ chat.ret[1].t = "str"

\* The send ended on a failed or degraded outcome: its last model call raised
\* (retries exhausted, or a failure that is not retried), or it made no model
\* call because the catalog was empty.
FailedOrDegraded ==
    /\ chat.pc = "returned"
    /\ Attempts >= 1
    /\ \/ EventsOf(events, "model") = <<>>
       \/ events[Len(events)].ev = "model" /\ events[Len(events)].out.kind = "raise"

\* The send ended with an answer of the model.
Answered ==
    /\ chat.pc = "returned"
    /\ events[Len(events)].ev = "model"
    /\ events[Len(events)].out.kind = "response"

\* C21: the text a send returns on a failed or degraded outcome (timeout
\* exhaustion, rate-limit exhaustion, a failure that is not retried, an empty
\* catalog) begins with the error marker; on a successful path the text
\* returned is the text of the model's answer with nothing put before it.
C21_ErrorMarkerOnFailuresOnly ==
    /\ FailedOrDegraded =>
          /\ chat.ret[1].t = "str"
          /\ chat.ret[1].v # <<>>
          /\ chat.ret[1].v[1] = ErrorMarker
    /\ Answered =>
          /\ chat.ret[1].t = "str"
          /\ chat.ret[1].v = events[Len(events)].out.message.content[1].text

W21_NoToolsTextStartsWithMarker ==
    /\ FailedOrDegraded
    /\ server_sessions = <<>>
    /\ chat.max_retries = 2
    /\ chat.ret[1].v[1] = ErrorMarker
    /\ events[1].turns = 0

-----------------------------------------------------------------------------
\* C28: at no moment are two tool calls outstanding on one session's channel.
\* Within a turn that requests several tools, at most one call_tool is
\* outstanding at any moment, so that a call is issued only after the one
\* before it has returned or failed; in particular no two outstanding calls
\* are on the same session.
C28_OneOutstandingCallPerSession ==
    /\ Len(chat.outstanding) <= 1
    /\ \A a, b \in DOMAIN chat.outstanding :
          chat.outstanding[a].session = chat.outstanding[b].session => a = b

\* The second tool call of a response whose two tool requests go to the same
\* session is outstanding, the first having returned.
W28_SecondCallOnSameSessionOutstanding ==
    /\ chat.pc = "tools"
    /\ chat.response = TwoToolUses.content
    /\ Len(chat.tool_results) = 1
    /\ Len(chat.outstanding) = 1
    /\ chat.outstanding[1].id = "toolu_2"
    /\ ThisAttempt[Len(ThisAttempt)].ev = "tool"
    /\ LET info == server_sessions[chat.outstanding[1].session]
       IN  /\ Advertises(info, "query")
           /\ Advertises(info, "list")

(***************************************************************************)
(* The metrics collector (SpecMetrics).                                    *)
(***************************************************************************)

Successes == Cardinality({i \in DOMAIN metrics : metrics[i].success})

\* tenths is 1000 * n / d rounded to the nearest integer.
NearestTenths(tenths, n, d) ==
    /\ 2 * (1000 * n - tenths * d) <= d
    /\ 2 * (tenths * d - 1000 * n) <= d

\* C22: get_summary returns the 'No metrics available' sentinel for an empty
\* log; otherwise total_requests is the length of the log, successful the
\* number of metrics with success = true, failed their difference, and
\* success_rate the text of 100 * successful / total to one decimal followed
\* by '%': 2 successes and 1 failure give '66.7%' and failed = 1.
C22_SummaryCountsAndRate ==
    last_op.op = "get_summary" =>
        IF metrics = <<>> THEN last_op.result = [message |-> "No metrics available"]
        ELSE /\ DOMAIN last_op.result = {"total_requests", "successful", "failed",
                                         "success_rate", "avg_duration_seconds"}
             /\ last_op.result.total_requests = Len(metrics)
             /\ last_op.result.successful = Successes
             /\ last_op.result.failed = Len(metrics) - Successes
             /\ \E tenths \in 0..1000 :
                   /\ NearestTenths(tenths, Successes, Len(metrics))
                   /\ last_op.result.success_rate =
                         <<ToString(tenths \div 10), ".", ToString(tenths % 10), "%">>
             /\ (Len(metrics) = 3 /\ Successes = 2) =>
                   /\ last_op.result.success_rate = <<"66", ".", "7", "%">>
                   /\ last_op.result.failed = 1

W22_TwoOfThreeSucceeded ==
    /\ last_op.op = "get_summary"
    /\ Len(metrics) = 3
    /\ Successes = 2
    /\ last_op.result.success_rate = <<"66", ".", "7", "%">>
    /\ last_op.result.avg_duration_seconds = <<"3", ".", "3", "3">>

(***************************************************************************)
(* The interactive conversation (SpecConversation)                         *)
(***************************************************************************)

IsPrefix(s, t) == Len(s) <= Len(t) /\ SubSeq(t, 1, Len(s)) = s

\* C23: the metrics log is append-only.  Every step either leaves the log as
\* it is or adds exactly one metric at its end, the earlier metrics keeping
\* their positions and their values; a step of get_metrics_summary, which
\* reads the collector's summary, leaves the log as it is.
C23_MetricsLogAppendOnly ==
    [][/\ \/ metrics' = metrics
          \/ /\ Len(metrics') = Len(metrics) + 1
             /\ IsPrefix(metrics, metrics')
       /\ last_op'.op = "get_metrics_summary" => metrics' = metrics]_vars

\* A send added its metric behind the metric of an earlier send, and the
\* summary of the two was then read.
W23_SummaryAfterSecondMetric ==
    /\ chat.pc = "returned"
    /\ Len(metrics) = 2
    /\ events[1].recorded = 1
    /\ last_op.op = "get_metrics_summary"
    /\ last_op.result.total_requests = 2

\* C29: the conversation history only grows, except by clear_conversation.
\* Every step either extends the history at its end, the earlier turns kept
\* as they were, or is a step of clear_conversation; and a step of
\* clear_conversation leaves the history empty and the metrics log, the
\* session registry and the channels as they were.
C29_HistoryGrowsUnlessCleared ==
    [][/\ \/ IsPrefix(conversation_history, conversation_history')
          \/ last_op'.op = "clear_conversation"
       /\ last_op'.op = "clear_conversation" =>
             /\ conversation_history' = <<>>
             /\ metrics' = metrics
             /\ server_sessions' = server_sessions
             /\ channels' = channels
       /\ chat'.pc # chat.pc =>
             IsPrefix(conversation_history, conversation_history')]_vars

\* A send that made an exchange attempt has returned and recorded its metric,
\* and the history it left was then cleared.
W29_ClearedAfterSend ==
    /\ chat.pc = "returned"
    /\ Len(EventsOf(events, "attempt")) >= 1
    /\ Len(metrics) = events[1].recorded + 1
    /\ server_sessions # <<>>
    /\ last_op.op = "clear_conversation"
    /\ conversation_history = <<>>

(***************************************************************************)
(* Loading the configuration (SpecConfig)                                  *)
(***************************************************************************)

\* a step of load_configuration_text
LoadStep == last_op'.op = "load_configuration" /\ last_op' # last_op

\* C25: loading an existing configuration source never writes it, and two
\* loads of the same existing source yield equal descriptor lists: a load that
\* finds a file leaves the file as it is, and when the load before it found the
\* same file, it raises if and only if that one did and leaves the descriptor
\* list equal to the one that load left.
C25_LoadingExistingSourceIsIdempotent ==
    [][(LoadStep /\ config_file.kind = "text") =>
          /\ config_file' = config_file
          /\ last_op.op = "load_configuration" =>
                /\ last_op'.raised = last_op.raised
                /\ server_configs' = server_configs]_vars

\* Two loads of a file that holds the default server and a second one have
\* both yielded the same two descriptors.
W25_LoadedTwiceTwoDescriptors ==
    /\ last_op.op = "load_configuration"
    /\ last_op.n = 2
    /\ ~last_op.created
    /\ ~last_op.raised
    /\ Len(server_configs) = 2
    /\ server_configs[1][<<"name">>] = PyStr(<<"sqlite-database">>)
    /\ server_configs[2][<<"timeout">>] = PyNum(<<"3", "0">>)

\* C26: a load that finds no configuration source synthesizes exactly one
\* descriptor, named sqlite-database and enabled, and writes a file; the next
\* load, which reads that file, does not raise and yields a descriptor list
\* equal to the synthesized one.
C26_DefaultConfigurationRoundTrip ==
    [][/\ (LoadStep /\ config_file.kind = "absent") =>
             /\ ~last_op'.raised
             /\ Len(server_configs') = 1
             /\ server_configs'[1][<<"name">>] = PyStr(<<"sqlite-database">>)
             /\ server_configs'[1][<<"enabled">>] = PyBool(TRUE)
             /\ config_file'.kind = "text"
       /\ (LoadStep /\ last_op.op = "load_configuration" /\ last_op.created
              /\ last_op.n = 1) =>
             /\ ~last_op'.raised
             /\ server_configs' = server_configs]_vars

\* The default file was written by the first load and read back by the second.
W26_DefaultWrittenThenReloaded ==
    /\ last_op.op = "load_configuration"
    /\ last_op.n = 2
    /\ last_op.created
    /\ ~last_op.raised
    /\ Len(server_configs) = 1
    /\ config_file = TextFile(json_dump(default_config))
    /\ server_configs[1][<<"metadata">>] = Value(DefaultServer).v[<<"metadata">>]

(***************************************************************************)
(* The metric and the history of a send (SpecChat)                         *)
(***************************************************************************)

\* The names of the tools for which the send's execute_tool calls reached a
\* session, in call order.
ToolsInvoked ==
    LET calls == SelectSeq(events,
                           LAMBDA e : /\ e.ev = "tool"
                                      /\ execute_tool_from(1, e.name, NoCall).called # <<>>)
    IN  [i \in DOMAIN calls |-> calls[i].name]

\* The send has returned and its metric is the last of the log.
Recorded == chat.pc = "returned" /\ Len(metrics) = events[1].recorded + 1

\* C31: the metric recorded for a send lists in tools_called the names of
\* the tools the send invoked, in invocation order, and is empty exactly when
\* the send invoked none.
C31_ToolsCalledListsInvokedTools ==
    Recorded => LastMetric.tools_called = ToolsInvoked

\* The tool result block carries an error payload: the dict with the key
\* error that execute_tool returns for a tool no healthy session advertises
\* and for a call that raised.
ErrorPayload(block) ==
    LET value == block.content[1].text.dumps
    IN  value.t = "dict" /\ <<"error">> \in DOMAIN value.v

FailedResults == {j \in DOMAIN chat.tool_results : ErrorPayload(chat.tool_results[j])}

\* C32: a tool invocation that ends in an error result does not end the
\* turn.  In an exchange attempt with such a result, the error payload is in
\* the result block keyed with the call identifier of its request; once the
\* tool loop is over every requested tool has been invoked, and the attempt
\* does not go on or return without the second model call; that call gets
\* the history whose tool-result turn holds the payload; and when it answers,
\* the send returns the answer and is recorded with success = true.
C32_ToolFailureDoesNotEndTurn ==
    (FirstResponse(TRUE) /\ FailedResults # {}) =>
        LET requests == Requests(chat.response)
            n == ThisAttempt[1].turns
            h == conversation_history
            calls == EventsOf(ThisAttempt, "model")
        IN  /\ \A j \in FailedResults : chat.tool_results[j].tool_use_id = requests[j].id
            /\ chat.pc # "tools" =>
                  /\ Len(chat.tool_results) = Len(requests)
                  /\ Len(EventsOf(ThisAttempt, "tool")) = Len(requests)
            /\ chat.pc \notin {"tools", "model2"} => SecondCallMade
            /\ SecondCallMade =>
                  /\ Len(h) >= n + 3
                  /\ SameTurn(h[n + 3], Turn("user", PyList(chat.tool_results)))
            /\ (SecondCallMade /\ calls[2].out.kind = "response") =>
                  /\ ReturnedText(calls[2].out.message.content[1].text)
                  /\ Recorded
                  /\ LastMetric.success
                  /\ LastMetric.error_type = <<>>

\* The first of two requested calls raised in the backend, the second was
\* still made, and the send returned the answer of the second model call.
W32_AnsweredAfterFailedFirstTool ==
    /\ FirstResponse(TRUE)
    /\ chat.response = TwoToolUses.content
    /\ FailedResults = {1}
    /\ chat.tool_results[1].tool_use_id = "toolu_1"
    /\ Len(chat.tool_results) = 2
    /\ ReturnedText(<<"done">>)
    /\ LastMetric.success

\* The positions of the turns the send has appended that hold its user message.
UserTurnsOfSend ==
    {i \in DOMAIN conversation_history :
        /\ chat.pc # "idle"
        /\ i > events[1].turns
        /\ conversation_history[i].role = "user"
        /\ conversation_history[i].content.t = "str"
        /\ conversation_history[i].content.v = chat.user_message}

\* C33: one call of chat_with_claude appends the user's message to the
\* history exactly once, however many attempts it makes: the history never
\* holds more than one user turn of the send, and holds one once the first
\* attempt has started.
C33_UserMessageAppendedOnce ==
    /\ Cardinality(UserTurnsOfSend) <= 1
    /\ (chat.pc # "idle" /\ Attempts >= 1) => Cardinality(UserTurnsOfSend) = 1

\* The last attempt's _execute_chat returned: the send has returned and the
\* last thing it did was not a model call that raised.
AttemptSucceeded ==
    /\ chat.pc = "returned"
    /\ Attempts >= 1
    /\ events[Len(events)].ev # "sleep"
    /\ ~(events[Len(events)].ev = "model" /\ events[Len(events)].out.kind = "raise")

\* C34: timeouts and rate-limit failures share one attempt budget.  A send
\* never starts more than max_retries exchange attempts, whatever the order
\* of the two kinds of failure; a sleep of either kind is only made when an
\* attempt is left; and a send whose attempt k succeeded, after any failures
\* of the attempts before it, is recorded with success = true and no error
\* kind.
C34_SharedAttemptBudget ==
    /\ Attempts <= chat.max_retries
    /\ \A i \in DOMAIN events :
          /\ events[i].ev \in {"attempt", "model", "tool", "sleep"} =>
                events[i].attempt <= chat.max_retries
          /\ events[i].ev = "sleep" => events[i].attempt < chat.max_retries
    /\ AttemptSucceeded =>
          /\ Recorded
          /\ LastMetric.success
          /\ LastMetric.error_type = <<>>
          /\ LastMetric.end_time # <<>>

\* A timeout, then a rate-limit failure, then an answer on the third of three
\* attempts.
W34_AnsweredAfterTimeoutAndRateLimit ==
    /\ chat.max_retries = 3
    /\ Attempts = 3
    /\ AttemptRaised(1, APITimeoutError)
    /\ AttemptRaised(2, RateLimitError)
    /\ AttemptSucceeded
    /\ Answered
    /\ LastMetric.success
    /\ LastMetric.error_type = <<>>

\* The numbers of the attempts of the send that called execute_tool.
AttemptsWithTools == {events[i].attempt : i \in {j \in DOMAIN events : events[j].ev = "tool"}}

\* A turn that holds tool results.
ToolResultTurn(turn) ==
    /\ turn.role = "user"
    /\ turn.content.t = "list"

\* C35: within one call of chat_with_claude the tool-execution phase is
\* entered by at most one attempt, so that tools that ran are not run again by
\* a retry, and no tool-result turn the send appended is followed by a
\* repeated user turn of the same message.
C35_ToolsNotRunAgainOnRetry ==
    /\ Cardinality(AttemptsWithTools) <= 1
    /\ \A i \in UserTurnsOfSend :
          \A j \in DOMAIN conversation_history :
              (events[1].turns < j /\ j < i) => ~ToolResultTurn(conversation_history[j])

\* The text the send returned starts with the error marker.
ErrorMarked ==
    /\ chat.ret # <<>>
    /\ chat.ret[1].t = "str"
    /\ chat.ret[1].v # <<>>
    /\ chat.ret[1].v[1] = ErrorMarker

\* C38: the metric recorded for a send has success = true exactly when the
\* text the send returned is not error-marked; in particular the send that
\* returns the diagnostic for an empty catalog is not recorded as successful.
C38_SuccessIffNotErrorMarked ==
    Recorded => (LastMetric.success <=> ~ErrorMarked)

====
